---- MODULE Spec2Model ----
(***************************************************************************)
(* Model of the Med-Mind-AI booking backend: the two calendar stores       *)
(* (backend/app/services/calendar_store.py, working on ISO 8601 strings,   *)
(* and backend/app/calendar_store.py, working on datetime objects).        *)
(*                                                                         *)
(* An ISO 8601 string is modelled by the two parts that decide its         *)
(* instant: the wall-clock reading and the zone suffix ("Z", "+00:00",     *)
(* "+01:00").  A datetime is a wall-clock reading with a utcoffset; Python *)
(* compares aware datetimes by their UTC instant (wall - utcoffset).       *)
(* The clock unit is one appointment slot.                                 *)
(*                                                                         *)
(* The services store also writes its list to calendar_events.json after   *)
(* each append; the file is read back only when the module is imported, a  *)
(* failed write is ignored, and no operation below reads it, so the file   *)
(* is not a variable of the model.                                         *)
(*                                                                         *)
(* The pre-visit workflow (agents/booking_agent_workflow.py) looks events  *)
(* up in the services store and keeps, per event id, one JSON file in      *)
(* data/pre_visit_data holding the Q&A list and the report.  The workflow  *)
(* imports save_qa, get_qa_history, save_report, get_report and the report *)
(* generator from app.models.pre_visit_questions / pre_visit_report; the   *)
(* functions of those names are the ones of agents/pre_visit_questions.py  *)
(* and agents/pre_visit_report.py, which are translated here.              *)
(***************************************************************************)
EXTENDS Integers, Sequences, FiniteSets, TLC

VARIABLES
    imported,    \* which calendar_store module the call sites use
    EVENTS,      \* services/calendar_store.py EVENTS: list of Event dicts
    AppEVENTS,   \* calendar_store.py EVENTS.events: list of Event objects
    ret,         \* the last completed call: its name, arguments and outcome
    pc,          \* per request thread: position inside create_event
    cand,        \* per request thread: the event passed to create_event
    DATA_DIR,    \* data/pre_visit_data: the content of <event_id>.json per id
    llm,         \* the last workflow call's use of the external model (ChatOpenAI)
    frame,       \* per request thread: the locals of the workflow call it runs
    conversation_store  \* state.py: the message list of each session_id

vars == <<imported, EVENTS, AppEVENTS, ret, pc, cand, DATA_DIR, llm, frame,
          conversation_store>>

----------------------------------------------------------------------------
(* Bounds of the model *)

MaxWall == 1          \* wall-clock readings are 0..MaxWall

Walls == 0..MaxWall
Zones == {"Z", "+01:00"}
IsoStrings == [wall : Walls, zone : Zones]
Datetimes == [wall : Walls, utcoffset : {0, 1}]
CallerIds == {"a"}
NoId == ""            \* the id key is absent or holds a falsy value
Patients == {"pat"}
Titles == {"visit"}
UuidPool == <<"u1", "u2", "u3", "u4", "u5", "u6">>
Threads == {1, 2}
Modules == {"services", "app"}
NoEvent == [id |-> NoId]

ErrEndBeforeStart == "end must be after start"
ErrOverlap == "Requested time overlaps an existing event."

----------------------------------------------------------------------------
(* Python runtime: comparison of aware datetimes, uuid4 *)

Utc(d) == d.wall - d.utcoffset
DtLT(a, b) == Utc(a) < Utc(b)
DtLE(a, b) == Utc(a) <= Utc(b)

SeqRange(s) == {s[i] : i \in 1..Len(s)}

\* uuid4(): an id that no event of either store carries
uuid4 ==
    LET used == {ev.id : ev \in SeqRange(EVENTS) \cup SeqRange(AppEVENTS)}
        free == {i \in 1..Len(UuidPool) : UuidPool[i] \notin used}
    IN  UuidPool[CHOOSE i \in free : \A j \in free : i <= j]

\* The last completed call, as the caller sees it: the store it started
\* from, its arguments, the exception message ("" when none is raised), the
\* bookings the exception carries, the value returned.
Call(op, module, pre, args, raised, carried, out) ==
    [op |-> op, module |-> module, pre |-> pre, args |-> args,
     raised |-> raised, carried |-> carried, out |-> out]

NoCall == Call("none", "none", <<>>, <<>>, "", <<>>, <<>>)

----------------------------------------------------------------------------
(* services/calendar_store.py: times are ISO 8601 strings *)

ZoneOffset(z) == IF z = "+01:00" THEN 1 ELSE 0

_parse_iso(dt) ==
    LET norm == IF dt.zone = "Z" THEN "+00:00" ELSE dt.zone
    IN  [wall |-> dt.wall, utcoffset |-> ZoneOffset(norm)]

\* Variant: the wall-clock readings are compared and the offsets ignored.
overlaps_wall_clock(a_start, a_end, b_start, b_end) ==
    a_start.wall < b_end.wall /\ b_start.wall < a_end.wall

\* Variant: closed intervals, touching ranges count as overlapping.
overlaps_closed(a_start, a_end, b_start, b_end) ==
    /\ DtLE(_parse_iso(a_start), _parse_iso(b_end))
    /\ DtLE(_parse_iso(b_start), _parse_iso(a_end))

overlaps(a_start, a_end, b_start, b_end) ==
    LET s1 == _parse_iso(a_start)
        e1 == _parse_iso(a_end)
        s2 == _parse_iso(b_start)
        e2 == _parse_iso(b_end)
    IN  DtLT(s1, e2) /\ DtLT(s2, e1)

\* Variant: only the events that start inside the range are found.
_get_events_between_start_inside(events, start_iso, end_iso) ==
    SelectSeq(events, LAMBDA ev :
        /\ DtLE(_parse_iso(start_iso), _parse_iso(ev.start))
        /\ DtLT(_parse_iso(ev.start), _parse_iso(end_iso)))

_get_events_between(events, start_iso, end_iso) ==
    SelectSeq(events, LAMBDA ev : overlaps(ev.start, ev.end, start_iso, end_iso))

\* Variant: only the first conflict found is reported.
_check_availability_first(events, start_iso, end_iso) ==
    LET busy == _get_events_between(events, start_iso, end_iso)
    IN  [available |-> Len(busy) = 0,
         conflicts |-> IF Len(busy) = 0 THEN busy ELSE <<busy[1]>>]

_check_availability(events, start_iso, end_iso) ==
    LET busy == _get_events_between(events, start_iso, end_iso)
    IN  [available |-> Len(busy) = 0, conflicts |-> busy]

\* Variant: the availability check comes before the validation of the range.
CreateChecks_availability_first(events, event) ==
    IF ~_check_availability(events, event.start, event.end).available
    THEN ErrOverlap
    ELSE IF DtLE(_parse_iso(event.end), _parse_iso(event.start))
    THEN ErrEndBeforeStart
    ELSE ""

\* Lines 92-95: the message of the ValueError raised, "" when none is.
CreateChecks(events, event) ==
    IF DtLE(_parse_iso(event.end), _parse_iso(event.start))
    THEN ErrEndBeforeStart
    ELSE IF ~_check_availability(events, event.start, event.end).available
    THEN ErrOverlap
    ELSE ""

\* Lines 97-106: the id of the payload or a fresh uuid, the other keys copied.
NewEvent(event, uuid) ==
    [id |-> IF event.id # NoId THEN event.id ELSE uuid,
     patient_name |-> event.patient_name,
     start |-> event.start,
     end |-> event.end]

\* Variant: the event is appended before the checks, and stays on a raise.
_create_event_append_first(events, event, uuid) ==
    LET raised == CreateChecks(events, event)
        ev == NewEvent(event, uuid)
    IN  [raised |-> raised, carried |-> <<>>,
         events |-> Append(events, ev),
         event |-> IF raised # "" THEN NoEvent ELSE ev]

\* Outcome of _create_event: the exception message, the bookings the
\* exception carries (ValueError holds the message only), the list
\* afterwards and the event returned.
_create_event(events, event, uuid) ==
    LET raised == CreateChecks(events, event)
        ev == NewEvent(event, uuid)
    IN  IF raised # ""
        THEN [raised |-> raised, carried |-> <<>>,
              events |-> events, event |-> NoEvent]
        ELSE [raised |-> "", carried |-> <<>>,
              events |-> Append(events, ev), event |-> ev]

EventDicts == [id : CallerIds \cup {NoId}, patient_name : Patients,
               start : IsoStrings, end : IsoStrings]

\* The dicts the call sites of the repository build (EventCreate.model_dump(),
\* event_data of the booking tool and of handle_create_intent): no id key.
EventPayloads == {event \in EventDicts : event.id = NoId}

\* create_event(event): _create_event on the global list
create_event(event) ==
    LET r == _create_event(EVENTS, event, uuid4)
    IN  /\ imported = "services"
        /\ EVENTS' = r.events
        /\ ret' = Call("create_event", "services", EVENTS, event,
                       r.raised, r.carried, r.event)
        /\ UNCHANGED <<imported, AppEVENTS, pc, cand, DATA_DIR, llm, frame,
                       conversation_store>>

\* Variant: the conflicts found are taken out of the list.
check_availability_consuming(start_iso, end_iso) ==
    /\ imported = "services"
    /\ EVENTS' = SelectSeq(EVENTS, LAMBDA ev :
                     ~overlaps(ev.start, ev.end, start_iso, end_iso))
    /\ ret' = Call("check_availability", "services", EVENTS,
                   <<start_iso, end_iso>>,
                   "", <<>>, _check_availability(EVENTS, start_iso, end_iso))
    /\ UNCHANGED <<imported, AppEVENTS, pc, cand, DATA_DIR, llm, frame,
                   conversation_store>>

\* check_availability(start_iso, end_iso): _check_availability on the global list
check_availability(start_iso, end_iso) ==
    /\ imported = "services"
    /\ ret' = Call("check_availability", "services", EVENTS,
                   <<start_iso, end_iso>>,
                   "", <<>>, _check_availability(EVENTS, start_iso, end_iso))
    /\ UNCHANGED <<imported, EVENTS, AppEVENTS, pc, cand, DATA_DIR, llm, frame,
                   conversation_store>>

----------------------------------------------------------------------------
(* calendar_store.py: times are datetime objects *)

app_overlaps(a_start, a_end, b_start, b_end) ==
    DtLT(a_start, b_end) /\ DtLT(b_start, a_end)

app_get_events_between(events, start_time, end_time) ==
    SelectSeq(events, LAMBDA ev : app_overlaps(ev.start, ev.end, start_time, end_time))

\* def check_availability(end_time, start_time): the first parameter is the end
app_check_availability(events, end_time, start_time) ==
    LET busy == app_get_events_between(events, start_time, end_time)
    IN  [available |-> Len(busy) = 0, conflicts |-> busy]

\* Lines 192-196
AppCreateChecks(events, event) ==
    IF DtLE(event.end, event.start)
    THEN ErrEndBeforeStart
    ELSE IF ~app_check_availability(events, event.end, event.start).available
    THEN ErrOverlap
    ELSE ""

\* Lines 198-206
AppNewEvent(event, uuid) ==
    [id |-> IF event.id # NoId THEN event.id ELSE uuid,
     title |-> event.title,
     start |-> event.start,
     end |-> event.end]

AppEventObjects == [id : CallerIds \cup {NoId}, title : Titles,
                    start : Datetimes, end : Datetimes]

\* Event objects whose id is left empty, for create_event to fill
AppEventPayloads == {event \in AppEventObjects : event.id = NoId}

\* create_event(event: Event) on EVENTS.events
app_create_event(event) ==
    LET raised == AppCreateChecks(AppEVENTS, event)
        ev == AppNewEvent(event, uuid4)
    IN  /\ imported = "app"
        /\ IF raised # ""
           THEN /\ AppEVENTS' = AppEVENTS
                /\ ret' = Call("create_event", "app", AppEVENTS, event,
                               raised, <<>>, NoEvent)
           ELSE /\ AppEVENTS' = Append(AppEVENTS, ev)
                /\ ret' = Call("create_event", "app", AppEVENTS, event,
                               "", <<>>, ev)
        /\ UNCHANGED <<imported, EVENTS, pc, cand, DATA_DIR, llm, frame,
                       conversation_store>>

\* check_availability(x, y) called with two positional arguments
app_check_availability_call(first, second) ==
    /\ imported = "app"
    /\ ret' = Call("check_availability", "app", AppEVENTS,
                   <<first, second>>,
                   "", <<>>, app_check_availability(AppEVENTS, first, second))
    /\ UNCHANGED <<imported, EVENTS, AppEVENTS, pc, cand, DATA_DIR, llm, frame,
                   conversation_store>>

----------------------------------------------------------------------------
(* create_event run by request threads: the checks (services lines 92-95,  *)
(* app lines 192-196) read the list, the append (services line 107, app    *)
(* line 208) writes it, and nothing holds a lock in between.               *)

create_event_check(t, event) ==
    LET raised == CreateChecks(EVENTS, event)
    IN  /\ imported = "services"
        /\ pc[t] = "idle"
        /\ cand' = [cand EXCEPT ![t] = event]
        /\ pc' = [pc EXCEPT ![t] = IF raised # "" THEN "raised" ELSE "checked"]
        /\ UNCHANGED <<imported, EVENTS, AppEVENTS, ret, DATA_DIR, llm, frame,
                       conversation_store>>

create_event_append(t) ==
    /\ imported = "services"
    /\ pc[t] = "checked"
    /\ EVENTS' = Append(EVENTS, NewEvent(cand[t], uuid4))
    /\ pc' = [pc EXCEPT ![t] = "returned"]
    /\ UNCHANGED <<imported, AppEVENTS, ret, cand, DATA_DIR, llm, frame,
                   conversation_store>>

app_create_event_check(t, event) ==
    LET raised == AppCreateChecks(AppEVENTS, event)
    IN  /\ imported = "app"
        /\ pc[t] = "idle"
        /\ cand' = [cand EXCEPT ![t] = event]
        /\ pc' = [pc EXCEPT ![t] = IF raised # "" THEN "raised" ELSE "checked"]
        /\ UNCHANGED <<imported, EVENTS, AppEVENTS, ret, DATA_DIR, llm, frame,
                       conversation_store>>

app_create_event_append(t) ==
    /\ imported = "app"
    /\ pc[t] = "checked"
    /\ AppEVENTS' = Append(AppEVENTS, AppNewEvent(cand[t], uuid4))
    /\ pc' = [pc EXCEPT ![t] = "returned"]
    /\ UNCHANGED <<imported, EVENTS, ret, cand, DATA_DIR, llm, frame,
                   conversation_store>>

----------------------------------------------------------------------------
(* overlaps applied to four arbitrary arguments *)

overlaps_call(a_start, a_end, b_start, b_end) ==
    /\ imported = "services"
    /\ ret' = Call("overlaps", "services", EVENTS,
                   <<a_start, a_end, b_start, b_end>>, "", <<>>,
                   overlaps(a_start, a_end, b_start, b_end))
    /\ UNCHANGED <<imported, EVENTS, AppEVENTS, pc, cand, DATA_DIR, llm, frame,
                   conversation_store>>

app_overlaps_call(a_start, a_end, b_start, b_end) ==
    /\ imported = "app"
    /\ ret' = Call("overlaps", "app", AppEVENTS,
                   <<a_start, a_end, b_start, b_end>>, "", <<>>,
                   app_overlaps(a_start, a_end, b_start, b_end))
    /\ UNCHANGED <<imported, EVENTS, AppEVENTS, pc, cand, DATA_DIR, llm, frame,
                   conversation_store>>

----------------------------------------------------------------------------
(* services/calendar_store.py: lookup by id and month listing *)

\* Ids an event_id argument may name: the ids uuid4 gives and the callers'
EventIds == CallerIds \cup SeqRange(UuidPool)

\* Variant: the loop gives up after the first event of the list.
get_event_by_id_first_only(event_id) ==
    IF Len(EVENTS) > 0 /\ EVENTS[1].id = event_id THEN EVENTS[1] ELSE NoEvent

\* get_event_by_id(event_id): the first event of EVENTS carrying the id,
\* None (NoEvent) when the loop ends without one
get_event_by_id(event_id) ==
    LET hits == {i \in 1..Len(EVENTS) : EVENTS[i].id = event_id}
    IN  IF hits = {}
        THEN NoEvent
        ELSE EVENTS[CHOOSE i \in hits : \A j \in hits : i <= j]

\* A lookup that takes the event out of the list
get_event_by_id_call_popping(event_id) ==
    /\ imported = "services"
    /\ ret' = Call("get_event_by_id", "services", EVENTS, event_id,
                   "", <<>>, get_event_by_id(event_id))
    /\ EVENTS' = SelectSeq(EVENTS, LAMBDA event : event.id # event_id)
    /\ UNCHANGED <<imported, AppEVENTS, pc, cand, DATA_DIR, llm, frame,
                   conversation_store>>

\* A caller looks an event up
get_event_by_id_call(event_id) ==
    /\ imported = "services"
    /\ ret' = Call("get_event_by_id", "services", EVENTS, event_id,
                   "", <<>>, get_event_by_id(event_id))
    /\ UNCHANGED <<imported, EVENTS, AppEVENTS, pc, cand, DATA_DIR, llm, frame,
                   conversation_store>>

----------------------------------------------------------------------------
(* agents/pre_visit_questions.py, agents/pre_visit_report.py: one JSON    *)
(* file per event id, {"qa": [...], "event_id": ..., "report": ...}       *)

MaxAnswers == 8       \* submit calls are explored up to this history length

RequiredAnswers == 7  \* the literal 7 of the workflow's length tests

Questions == {"q"}
Answers == {"yes", "no"}
NoQuestion == "None"  \* generate_next_question returned None
Reports == {"r1", "r2"}
NoReport == "None"    \* the file has no "report" key, or there is no file
GeneratorFailure == "Exception"   \* model.invoke or json.loads raised

\* <event_id>.json does not exist
NoFile == [exists |-> FALSE, qa |-> <<>>, report |-> NoReport]

\* data = {"qa": [], "event_id": event_id}
NewFile == [exists |-> TRUE, qa |-> <<>>, report |-> NoReport]

\* Lines 62-66 / 193-197: json.load of the file, or the fresh dict
LoadOrNew(data_dir, event_id) ==
    IF data_dir[event_id].exists THEN data_dir[event_id] ELSE NewFile

\* Variant: the pair is put in front of the list.
save_qa_prepend(data_dir, event_id, question, answer) ==
    LET data == LoadOrNew(data_dir, event_id)
    IN  [data_dir EXCEPT ![event_id] =
            [data EXCEPT !.qa = <<[question |-> question, answer |-> answer]>>
                                   \o data.qa]]

\* Variant: the list is started again on every call.
save_qa_restart(data_dir, event_id, question, answer) ==
    LET data == LoadOrNew(data_dir, event_id)
    IN  [data_dir EXCEPT ![event_id] =
            [data EXCEPT !.qa = <<[question |-> question, answer |-> answer]>>]]

\* save_qa(event_id, question, answer): load or start the file, append the
\* pair, write the file back; the result is the directory afterwards
save_qa(data_dir, event_id, question, answer) ==
    LET data == LoadOrNew(data_dir, event_id)
    IN  [data_dir EXCEPT ![event_id] =
            [data EXCEPT !.qa = Append(data.qa, [question |-> question,
                                                 answer |-> answer])]]

\* get_qa_history(event_id)
get_qa_history(data_dir, event_id) ==
    IF ~data_dir[event_id].exists THEN <<>> ELSE data_dir[event_id].qa

\* save_report(event_id, report)
save_report(data_dir, event_id, report) ==
    LET data == LoadOrNew(data_dir, event_id)
    IN  [data_dir EXCEPT ![event_id] = [data EXCEPT !.report = report]]

\* get_report(event_id)
get_report(data_dir, event_id) ==
    IF ~data_dir[event_id].exists THEN NoReport ELSE data_dir[event_id].report

\* What a call asked of the external model: which function invoked it, the
\* Q&A history put into the messages, whether model.invoke (or the parsing
\* of its answer) raised, and how many times model.invoke was called: the
\* functions hold one invoke in straight-line code, no retry
Invoke(fn, qa_history, raised) ==
    [fn |-> fn, qa_history |-> qa_history, raised |-> raised,
     calls |-> IF fn = "none" THEN 0 ELSE 1]
NoInvoke == Invoke("none", <<>>, FALSE)

\* pre_visit_report.generate_pre_visit_report: the empty report without the
\* model when there is no history, else the model's answer parsed, or the
\* exception of model.invoke / json.loads
generate_report(qa_history, outcome) ==
    IF qa_history = <<>>
    THEN [raised |-> FALSE, report |-> "empty", llm |-> NoInvoke]
    ELSE [raised |-> outcome = GeneratorFailure,
          report |-> outcome,
          llm |-> Invoke("generate_pre_visit_report", qa_history,
                         outcome = GeneratorFailure)]

----------------------------------------------------------------------------
(* agents/booking_agent_workflow.py *)

\* A message: its text and the values formatted into it
Fmt(text, args) == [text |-> text, args |-> args]

MsgNotFound == "Event not found"
MsgAllDone == "All questions completed. You can now generate the report."
MsgIncomplete == "Not all questions answered. {len(qa_history)}/7 completed."
MsgFailed == "Failed to generate report: {str(e)}"
MsgGenerated == "Report generated successfully"

\* Variant: the answer is saved although no event carries the id.
SubmitAnswer_unchecked(data_dir, event, event_id, question, answer, next_question) ==
    LET saved == save_qa(data_dir, event_id, question, answer)
        qa_history == get_qa_history(saved, event_id)
    IN  [data_dir |-> saved,
         out |-> [status |-> "success",
                  question_count |-> Len(qa_history),
                  is_complete |-> Len(qa_history) >= RequiredAnswers,
                  next_question |-> NoQuestion,
                  message |-> Fmt("", <<>>)],
         llm |-> NoInvoke]

\* Variant: the call is complete only after more than seven answers.
SubmitAnswer_late(data_dir, event, event_id, question, answer, next_question) ==
    LET saved == save_qa(data_dir, event_id, question, answer)
        qa_history == get_qa_history(saved, event_id)
    IN  [data_dir |-> IF event = NoEvent THEN data_dir ELSE saved,
         out |-> [status |-> IF event = NoEvent THEN "error" ELSE "success",
                  question_count |-> IF event = NoEvent THEN 0 ELSE Len(qa_history),
                  is_complete |-> event # NoEvent
                                    /\ Len(qa_history) > RequiredAnswers,
                  next_question |-> NoQuestion,
                  message |-> Fmt("", <<>>)],
         llm |-> NoInvoke]

\* Variant: an answer is dropped when no next question can be obtained.
SubmitAnswer_rollback(data_dir, event, event_id, question, answer, next_question) ==
    LET saved == save_qa(data_dir, event_id, question, answer)
        qa_history == get_qa_history(saved, event_id)
        failed == /\ Len(qa_history) < RequiredAnswers
                  /\ next_question = NoQuestion
    IN  [data_dir |-> IF event = NoEvent \/ failed THEN data_dir ELSE saved,
         out |-> [status |-> IF event = NoEvent \/ failed
                             THEN "error" ELSE "success",
                  question_count |-> IF event = NoEvent THEN 0
                                     ELSE Len(qa_history),
                  is_complete |-> event # NoEvent
                                    /\ Len(qa_history) >= RequiredAnswers,
                  next_question |-> IF event = NoEvent
                                       \/ Len(qa_history) >= RequiredAnswers
                                    THEN NoQuestion ELSE next_question,
                  message |-> Fmt("", <<>>)],
         llm |-> IF event = NoEvent \/ Len(qa_history) >= RequiredAnswers
                 THEN NoInvoke
                 ELSE Invoke("generate_next_question", qa_history,
                             next_question = NoQuestion)]

\* Variant: the session counts as complete one answer early.
SubmitAnswer_early(data_dir, event, event_id, question, answer, next_question) ==
    LET saved == save_qa(data_dir, event_id, question, answer)
        qa_history == get_qa_history(saved, event_id)
    IN  IF event = NoEvent
        THEN [data_dir |-> data_dir,
              out |-> [status |-> "error",
                       question_count |-> 0,
                       is_complete |-> FALSE,
                       next_question |-> NoQuestion,
                       message |-> Fmt(MsgNotFound, <<>>)],
              llm |-> NoInvoke]
        ELSE IF Len(qa_history) >= RequiredAnswers - 1
        THEN [data_dir |-> saved,
              out |-> [status |-> "success",
                       question_count |-> Len(qa_history),
                       is_complete |-> TRUE,
                       next_question |-> NoQuestion,
                       message |-> Fmt(MsgAllDone, <<>>)],
              llm |-> NoInvoke]
        ELSE [data_dir |-> saved,
              out |-> [status |-> "success",
                       question_count |-> Len(qa_history),
                       is_complete |-> FALSE,
                       next_question |-> next_question,
                       message |-> Fmt("", <<>>)],
              llm |-> Invoke("generate_next_question", qa_history,
                             next_question = NoQuestion)]

\* submit_pre_visit_answer, lines 210-245: the directory afterwards, the
\* dict returned and the use made of the external model; next_question is
\* what generate_next_question gives if it is called (None when the model
\* raised, lines 114-120 of pre_visit_questions.py)
SubmitAnswer(data_dir, event, event_id, question, answer, next_question) ==
    LET saved == save_qa(data_dir, event_id, question, answer)
        qa_history == get_qa_history(saved, event_id)
    IN  IF event = NoEvent
        THEN [data_dir |-> data_dir,
              out |-> [status |-> "error",
                       question_count |-> 0,
                       is_complete |-> FALSE,
                       next_question |-> NoQuestion,
                       message |-> Fmt(MsgNotFound, <<>>)],
              llm |-> NoInvoke]
        ELSE IF Len(qa_history) >= RequiredAnswers
        THEN [data_dir |-> saved,
              out |-> [status |-> "success",
                       question_count |-> Len(qa_history),
                       is_complete |-> TRUE,
                       next_question |-> NoQuestion,
                       message |-> Fmt(MsgAllDone, <<>>)],
              llm |-> NoInvoke]
        ELSE [data_dir |-> saved,
              out |-> [status |-> "success",
                       question_count |-> Len(qa_history),
                       is_complete |-> FALSE,
                       next_question |-> next_question,
                       message |-> Fmt("", <<>>)],
              llm |-> Invoke("generate_next_question", qa_history,
                             next_question = NoQuestion)]

\* submit_pre_visit_answer(event_id, question, answer)
submit_pre_visit_answer(event_id, question, answer, next_question) ==
    LET r == SubmitAnswer(DATA_DIR, get_event_by_id(event_id), event_id,
                          question, answer, next_question)
    IN  /\ imported = "services"
        /\ Len(get_qa_history(DATA_DIR, event_id)) < MaxAnswers
        /\ DATA_DIR' = r.data_dir
        /\ llm' = r.llm
        /\ ret' = Call("submit_pre_visit_answer", "workflow", DATA_DIR,
                       [event_id |-> event_id, question |-> question,
                        answer |-> answer],
                       "", <<>>, r.out)
        /\ UNCHANGED <<imported, EVENTS, AppEVENTS, pc, cand, frame,
                       conversation_store>>

MsgAllAnswered == "All questions have been answered."

\* Variant: the length test of lines 157-163 is left out.
NextQuestion_unguarded(data_dir, event, event_id, next_question) ==
    LET qa_history == get_qa_history(data_dir, event_id)
    IN  IF event = NoEvent
        THEN [out |-> [question |-> NoQuestion, question_count |-> 0,
                       is_complete |-> TRUE,
                       message |-> Fmt(MsgNotFound, <<>>)],
              llm |-> NoInvoke]
        ELSE IF next_question = NoQuestion
        THEN [out |-> [question |-> NoQuestion,
                       question_count |-> Len(qa_history),
                       is_complete |-> TRUE,
                       message |-> Fmt(MsgAllAnswered, <<>>)],
              llm |-> Invoke("generate_next_question", qa_history, TRUE)]
        ELSE [out |-> [question |-> next_question,
                       question_count |-> Len(qa_history),
                       is_complete |-> FALSE,
                       message |-> Fmt("", <<>>)],
              llm |-> Invoke("generate_next_question", qa_history, FALSE)]

\* get_next_pre_visit_question, lines 143-180: the dict returned and the
\* use made of the external model; next_question is what
\* generate_next_question gives if it is called
NextQuestion(data_dir, event, event_id, next_question) ==
    LET qa_history == get_qa_history(data_dir, event_id)
    IN  IF event = NoEvent
        THEN [out |-> [question |-> NoQuestion, question_count |-> 0,
                       is_complete |-> TRUE,
                       message |-> Fmt(MsgNotFound, <<>>)],
              llm |-> NoInvoke]
        ELSE IF Len(qa_history) >= RequiredAnswers
        THEN [out |-> [question |-> NoQuestion,
                       question_count |-> Len(qa_history),
                       is_complete |-> TRUE,
                       message |-> Fmt(MsgAllAnswered, <<>>)],
              llm |-> NoInvoke]
        ELSE IF next_question = NoQuestion
        THEN [out |-> [question |-> NoQuestion,
                       question_count |-> Len(qa_history),
                       is_complete |-> TRUE,
                       message |-> Fmt(MsgAllAnswered, <<>>)],
              llm |-> Invoke("generate_next_question", qa_history, TRUE)]
        ELSE [out |-> [question |-> next_question,
                       question_count |-> Len(qa_history),
                       is_complete |-> FALSE,
                       message |-> Fmt("", <<>>)],
              llm |-> Invoke("generate_next_question", qa_history, FALSE)]

\* get_next_pre_visit_question(event_id)
get_next_pre_visit_question(event_id, next_question) ==
    LET r == NextQuestion(DATA_DIR, get_event_by_id(event_id), event_id,
                          next_question)
    IN  /\ imported = "services"
        /\ llm' = r.llm
        /\ ret' = Call("get_next_pre_visit_question", "workflow", DATA_DIR,
                       [event_id |-> event_id], "", <<>>, r.out)
        /\ UNCHANGED <<imported, EVENTS, AppEVENTS, pc, cand, DATA_DIR, frame,
                       conversation_store>>

\* Variant: a booking that has a report is refused another one.
GenerateReport_reject_existing(data_dir, event, event_id, outcome) ==
    LET qa_history == get_qa_history(data_dir, event_id)
        g == generate_report(qa_history, outcome)
    IN  IF \/ event = NoEvent
           \/ Len(qa_history) < RequiredAnswers
           \/ get_report(data_dir, event_id) # NoReport
        THEN [data_dir |-> data_dir,
              out |-> [status |-> "error", report |-> NoReport,
                       message |-> Fmt(MsgNotFound, <<>>)],
              llm |-> NoInvoke]
        ELSE IF g.raised
        THEN [data_dir |-> data_dir,
              out |-> [status |-> "error", report |-> NoReport,
                       message |-> Fmt(MsgFailed, <<outcome>>)],
              llm |-> g.llm]
        ELSE [data_dir |-> save_report(data_dir, event_id, g.report),
              out |-> [status |-> "success", report |-> g.report,
                       message |-> Fmt(MsgGenerated, <<>>)],
              llm |-> g.llm]

\* Variant: the length test of lines 284-289 is left out.
GenerateReport_ungated(data_dir, event, event_id, outcome) ==
    LET qa_history == get_qa_history(data_dir, event_id)
        g == generate_report(qa_history, outcome)
    IN  IF event = NoEvent \/ g.raised
        THEN [data_dir |-> data_dir,
              out |-> [status |-> "error", report |-> NoReport,
                       message |-> Fmt(MsgFailed, <<outcome>>)],
              llm |-> g.llm]
        ELSE [data_dir |-> save_report(data_dir, event_id, g.report),
              out |-> [status |-> "success", report |-> g.report,
                       message |-> Fmt(MsgGenerated, <<>>)],
              llm |-> g.llm]

\* Variant: the file is written before the generator has answered.
GenerateReport_save_first(data_dir, event, event_id, outcome) ==
    LET qa_history == get_qa_history(data_dir, event_id)
        g == generate_report(qa_history, outcome)
    IN  IF event = NoEvent \/ Len(qa_history) < RequiredAnswers
        THEN [data_dir |-> data_dir,
              out |-> [status |-> "error", report |-> NoReport,
                       message |-> Fmt(MsgNotFound, <<>>)],
              llm |-> NoInvoke]
        ELSE [data_dir |-> save_report(data_dir, event_id, g.report),
              out |-> [status |-> IF g.raised THEN "error" ELSE "success",
                       report |-> IF g.raised THEN NoReport ELSE g.report,
                       message |-> IF g.raised
                                   THEN Fmt(MsgFailed, <<outcome>>)
                                   ELSE Fmt(MsgGenerated, <<>>)],
              llm |-> g.llm]

\* generate_pre_visit_report, lines 273-313: the directory afterwards, the
\* dict returned and the use made of the external model; outcome is what
\* the external model does if it is asked
GenerateReport(data_dir, event, event_id, outcome) ==
    LET qa_history == get_qa_history(data_dir, event_id)
        g == generate_report(qa_history, outcome)
    IN  IF event = NoEvent
        THEN [data_dir |-> data_dir,
              out |-> [status |-> "error", report |-> NoReport,
                       message |-> Fmt(MsgNotFound, <<>>)],
              llm |-> NoInvoke]
        ELSE IF Len(qa_history) < RequiredAnswers
        THEN [data_dir |-> data_dir,
              out |-> [status |-> "error", report |-> NoReport,
                       message |-> Fmt(MsgIncomplete, <<Len(qa_history)>>)],
              llm |-> NoInvoke]
        ELSE IF g.raised
        THEN [data_dir |-> data_dir,
              out |-> [status |-> "error", report |-> NoReport,
                       message |-> Fmt(MsgFailed, <<outcome>>)],
              llm |-> g.llm]
        ELSE [data_dir |-> save_report(data_dir, event_id, g.report),
              out |-> [status |-> "success", report |-> g.report,
                       message |-> Fmt(MsgGenerated, <<>>)],
              llm |-> g.llm]

\* generate_pre_visit_report(event_id)
generate_pre_visit_report(event_id, outcome) ==
    LET r == GenerateReport(DATA_DIR, get_event_by_id(event_id), event_id,
                            outcome)
    IN  /\ imported = "services"
        /\ DATA_DIR' = r.data_dir
        /\ llm' = r.llm
        /\ ret' = Call("generate_pre_visit_report", "workflow", DATA_DIR,
                       [event_id |-> event_id], "", <<>>, r.out)
        /\ UNCHANGED <<imported, EVENTS, AppEVENTS, pc, cand, frame,
                       conversation_store>>

\* routers/pre_visit_router.py generate_report_endpoint: an error dict
\* becomes HTTPException(400, detail=message)
generate_report_endpoint(event_id, outcome) ==
    LET r == GenerateReport(DATA_DIR, get_event_by_id(event_id), event_id,
                            outcome)
    IN  /\ imported = "services"
        /\ DATA_DIR' = r.data_dir
        /\ llm' = r.llm
        /\ ret' = IF r.out.status = "error"
                  THEN Call("generate_report_endpoint", "workflow", DATA_DIR,
                            [event_id |-> event_id], "HTTPException",
                            <<400, r.out.message>>, r.out)
                  ELSE Call("generate_report_endpoint", "workflow", DATA_DIR,
                            [event_id |-> event_id], "", <<>>,
                            [status |-> "success", report |-> r.out.report])
        /\ UNCHANGED <<imported, EVENTS, AppEVENTS, pc, cand, frame,
                       conversation_store>>

\* get_workflow_state(event_id)
get_workflow_state(event_id) ==
    LET event == get_event_by_id(event_id)
        qa_history == get_qa_history(DATA_DIR, event_id)
        report == get_report(DATA_DIR, event_id)
    IN  /\ imported = "services"
        /\ ret' = Call("get_workflow_state", "workflow", DATA_DIR,
                       [event_id |-> event_id], "", <<>>,
                       [event_exists |-> event # NoEvent,
                        questions_completed |-> Len(qa_history),
                        is_questions_complete |-> Len(qa_history) >= RequiredAnswers,
                        report_exists |-> report # NoReport,
                        event |-> event,
                        report |-> report,
                        qa_history |-> qa_history])
        /\ llm' = NoInvoke
        /\ UNCHANGED <<imported, EVENTS, AppEVENTS, pc, cand, DATA_DIR, frame,
                       conversation_store>>

\* Event ids the workflow is called with: the first id uuid4 gives and one
\* that no event of these behaviours carries
WorkflowIds == {UuidPool[1], UuidPool[2]}

\* Booking requests of the workflow's behaviours: they all start at the
\* same instant, so at most one is stored
WorkflowPayloads ==
    {event \in EventPayloads :
        /\ event.start = [wall |-> 0, zone |-> "Z"]
        /\ event.end.zone = "Z"}

----------------------------------------------------------------------------
(* Month listings of the two stores and of the calendar router *)

FirstOfMonth == 1     \* the wall-clock reading at which February begins

Years == {2025, 2026}
MonthNumbers == {1, 2, 3}

\* datetime.year and datetime.month: the readings before FirstOfMonth lie
\* in January 2025, the others in February 2025
dt_year(dt) == 2025
dt_month(dt) == IF dt.wall < FirstOfMonth THEN 1 ELSE 2

\* services/calendar_store.py _list_month_events(events, year, month)
_list_month_events(events, year, month) ==
    SelectSeq(events, LAMBDA ev :
        LET dt == _parse_iso(ev.start)
        IN  dt_year(dt) = year /\ dt_month(dt) = month)

\* services/calendar_store.py list_month_events(year, month)
list_month_events(year, month) ==
    /\ imported = "services"
    /\ ret' = Call("list_month_events", "services", EVENTS, <<year, month>>,
                   "", <<>>, _list_month_events(EVENTS, year, month))
    /\ UNCHANGED <<imported, EVENTS, AppEVENTS, pc, cand, DATA_DIR, llm, frame,
                   conversation_store>>

\* calendar_store.py list_month_events(time): the events with
\* event.start >= time and event.end <= time
app_list_month_events(events, time) ==
    SelectSeq(events, LAMBDA event :
        DtLE(time, event.start) /\ DtLE(event.end, time))

app_list_month_events_call(time) ==
    /\ imported = "app"
    /\ ret' = Call("list_month_events", "app", AppEVENTS, <<time>>,
                   "", <<>>, app_list_month_events(AppEVENTS, time))
    /\ UNCHANGED <<imported, EVENTS, AppEVENTS, pc, cand, DATA_DIR, llm, frame,
                   conversation_store>>

\* routers/calendar.py get_calendar(month): "YYYY-MM" is split and
\* cal.list_month_events(int(year), int(mon)) is called on the module
\* whose list_month_events takes one argument, which raises TypeError
get_calendar(year, month) ==
    /\ imported = "app"
    /\ ret' = Call("get_calendar", "app", AppEVENTS, <<year, month>>,
                   "TypeError", <<>>, <<>>)
    /\ UNCHANGED <<imported, EVENTS, AppEVENTS, pc, cand, DATA_DIR, llm, frame,
                   conversation_store>>

----------------------------------------------------------------------------
(* The workflow calls run by request threads.  Nothing in                *)
(* booking_agent_workflow.py, pre_visit_questions.py or                  *)
(* pre_visit_report.py takes a lock: a call is a sequence of reads and   *)
(* writes of EVENTS and of the files, and the steps of two calls may     *)
(* interleave.  Reading a file (open, json.load) is one step and writing *)
(* it (open "w", json.dump) is one step.  The question that              *)
(* submit_pre_visit_answer asks of the external model afterwards does    *)
(* not touch the files and is not a step of its own.                     *)

\* The locals of a workflow call: its arguments, the dict loaded by
\* save_qa / save_report (data), the history read by the caller
\* (qa_history), the history read by the report generator (given), the
\* report, and what is returned
Frame(op, event_id, answer, event_exists, data, qa_history, given, report, status) ==
    [op |-> op, event_id |-> event_id, answer |-> answer,
     event_exists |-> event_exists, data |-> data,
     qa_history |-> qa_history, given |-> given, report |-> report,
     status |-> status]

NoFrame == Frame("none", NoId, "", FALSE, NoFile, <<>>, <<>>, NoReport, "")

\* The answers and the generator outcomes of the threads' calls
RaceAnswers == {"yes"}
RaceOutcomes == {"r1", GeneratorFailure}

\* Lines 48, 211, 274: event = cal.get_event_by_id(event_id)
wf_lookup(t, op, event_id, answer) ==
    LET found == get_event_by_id(event_id) # NoEvent
        start == Frame(op, event_id, answer, found,
                       NoFile, <<>>, <<>>, NoReport, "")
    IN  /\ imported = "services"
        /\ pc[t] = "idle"
        /\ Len(get_qa_history(DATA_DIR, event_id)) < MaxAnswers
        /\ IF op = "get_workflow_state"
           THEN /\ frame' = [frame EXCEPT ![t] = start]
                /\ pc' = [pc EXCEPT ![t] = "state_qa"]
           ELSE IF ~found
           THEN /\ frame' = [frame EXCEPT ![t] = [start EXCEPT !.status = "error"]]
                /\ pc' = [pc EXCEPT ![t] = "returned"]
           ELSE /\ frame' = [frame EXCEPT ![t] = start]
                /\ pc' = [pc EXCEPT ![t] =
                             IF op = "submit_pre_visit_answer"
                             THEN "save_qa_load" ELSE "report_check"]
        /\ UNCHANGED <<imported, EVENTS, AppEVENTS, ret, cand, DATA_DIR, llm,
                       conversation_store>>

\* save_qa lines 60-66: the file is loaded, or the dict started
save_qa_load(t) ==
    /\ pc[t] = "save_qa_load"
    /\ frame' = [frame EXCEPT ![t].data = LoadOrNew(DATA_DIR, frame[t].event_id)]
    /\ pc' = [pc EXCEPT ![t] = "save_qa_write"]
    /\ UNCHANGED <<imported, EVENTS, AppEVENTS, ret, cand, DATA_DIR, llm,
                   conversation_store>>

\* save_qa lines 68-71: the pair is appended to the loaded dict and the
\* dict is written over the file
save_qa_write(t) ==
    /\ pc[t] = "save_qa_write"
    /\ DATA_DIR' = [DATA_DIR EXCEPT ![frame[t].event_id] =
                      [frame[t].data EXCEPT !.qa =
                          Append(@, [question |-> "q",
                                     answer |-> frame[t].answer])]]
    /\ pc' = [pc EXCEPT ![t] = "submit_read"]
    /\ UNCHANGED <<imported, EVENTS, AppEVENTS, ret, cand, llm, frame,
                   conversation_store>>

\* submit_pre_visit_answer lines 225-245: the history is read back and its
\* length returned as question_count
submit_read(t) ==
    /\ pc[t] = "submit_read"
    /\ frame' = [frame EXCEPT ![t].qa_history =
                                  get_qa_history(DATA_DIR, frame[t].event_id),
                              ![t].status = "success"]
    /\ pc' = [pc EXCEPT ![t] = "returned"]
    /\ UNCHANGED <<imported, EVENTS, AppEVENTS, ret, cand, DATA_DIR, llm,
                   conversation_store>>

\* generate_pre_visit_report lines 283-289: the history is read and its
\* length tested
report_check(t) ==
    LET qa_history == get_qa_history(DATA_DIR, frame[t].event_id)
    IN  /\ pc[t] = "report_check"
        /\ frame' = [frame EXCEPT ![t].qa_history = qa_history,
                                  ![t].status =
                                      IF Len(qa_history) < RequiredAnswers
                                      THEN "error" ELSE ""]
        /\ pc' = [pc EXCEPT ![t] = IF Len(qa_history) < RequiredAnswers
                                   THEN "returned" ELSE "report_generate"]
        /\ UNCHANGED <<imported, EVENTS, AppEVENTS, ret, cand, DATA_DIR, llm,
                       conversation_store>>

\* generate_pre_visit_report lines 293-298 and pre_visit_report.py lines
\* 134-182: the generator reads the history itself and asks the model
report_generate(t, outcome) ==
    LET given == get_qa_history(DATA_DIR, frame[t].event_id)
        g == generate_report(given, outcome)
    IN  /\ pc[t] = "report_generate"
        /\ frame' = [frame EXCEPT ![t].given = given,
                                  ![t].report = IF g.raised THEN NoReport
                                                ELSE g.report,
                                  ![t].status = IF g.raised THEN "error" ELSE ""]
        /\ pc' = [pc EXCEPT ![t] = IF g.raised THEN "returned"
                                   ELSE "save_report_load"]
        /\ UNCHANGED <<imported, EVENTS, AppEVENTS, ret, cand, DATA_DIR, llm,
                       conversation_store>>

\* save_report lines 191-197
save_report_load(t) ==
    /\ pc[t] = "save_report_load"
    /\ frame' = [frame EXCEPT ![t].data = LoadOrNew(DATA_DIR, frame[t].event_id)]
    /\ pc' = [pc EXCEPT ![t] = "save_report_write"]
    /\ UNCHANGED <<imported, EVENTS, AppEVENTS, ret, cand, DATA_DIR, llm,
                   conversation_store>>

\* Variant: the report is written into every file of the directory.
save_report_write_everywhere(t) ==
    /\ pc[t] = "save_report_write"
    /\ DATA_DIR' = [event_id \in DOMAIN DATA_DIR |->
                      IF event_id = frame[t].event_id
                      THEN [frame[t].data EXCEPT !.report = frame[t].report]
                      ELSE IF DATA_DIR[event_id].exists
                      THEN [DATA_DIR[event_id] EXCEPT !.report = frame[t].report]
                      ELSE DATA_DIR[event_id]]
    /\ frame' = [frame EXCEPT ![t].status = "success"]
    /\ pc' = [pc EXCEPT ![t] = "returned"]
    /\ UNCHANGED <<imported, EVENTS, AppEVENTS, ret, cand, llm,
                   conversation_store>>

\* save_report lines 199-202, then the success dict is returned
save_report_write(t) ==
    /\ pc[t] = "save_report_write"
    /\ DATA_DIR' = [DATA_DIR EXCEPT ![frame[t].event_id] =
                      [frame[t].data EXCEPT !.report = frame[t].report]]
    /\ frame' = [frame EXCEPT ![t].status = "success"]
    /\ pc' = [pc EXCEPT ![t] = "returned"]
    /\ UNCHANGED <<imported, EVENTS, AppEVENTS, ret, cand, llm,
                   conversation_store>>

\* get_workflow_state line 49: qa_history = get_qa_history(event_id)
state_qa(t) ==
    /\ pc[t] = "state_qa"
    /\ frame' = [frame EXCEPT ![t].qa_history =
                                  get_qa_history(DATA_DIR, frame[t].event_id)]
    /\ pc' = [pc EXCEPT ![t] = "state_report"]
    /\ UNCHANGED <<imported, EVENTS, AppEVENTS, ret, cand, DATA_DIR, llm,
                   conversation_store>>

\* get_workflow_state lines 50-60: report = get_report(event_id), and the
\* dict is returned
state_report(t) ==
    /\ pc[t] = "state_report"
    /\ frame' = [frame EXCEPT ![t].report =
                                  get_report(DATA_DIR, frame[t].event_id),
                              ![t].status = "success"]
    /\ pc' = [pc EXCEPT ![t] = "returned"]
    /\ UNCHANGED <<imported, EVENTS, AppEVENTS, ret, cand, DATA_DIR, llm,
                   conversation_store>>

\* The thread has answered its request and takes the next one
wf_next_request(t) ==
    /\ imported = "services"
    /\ pc[t] = "returned"
    /\ frame' = [frame EXCEPT ![t] = NoFrame]
    /\ pc' = [pc EXCEPT ![t] = "idle"]
    /\ UNCHANGED <<imported, EVENTS, AppEVENTS, ret, cand, DATA_DIR, llm,
                   conversation_store>>

WorkflowOps == {"submit_pre_visit_answer", "generate_pre_visit_report",
                "get_workflow_state"}

----------------------------------------------------------------------------
(* Two bookings, each with its own file *)

\* Booking requests that allow two stored bookings: one ending where the
\* other starts
FramePayloads ==
    {event \in EventPayloads : event.start.wall = 0 /\ event.end.zone = "Z"}

\* The booking a thread's calls are about
BookingOf(t) == UuidPool[t]

----------------------------------------------------------------------------
(* models/booking_model.py, process_booking_message and                   *)
(* routers/unified_workflow.py process_workflow                           *)

\* The create_event tool of the booking agent past its validation, lines
\* 233-246: cal.create_event(event_data) with a dict, any exception turned
\* into {"success": False}.  The tool's
\* module imports calendar_store by its bare name; given the services
\* store the dict is stored, given calendar_store.py, whose create_event
\* reads event.end of an Event object, the call raises AttributeError.
booking_tool_create_event(events, event_data, uuid) ==
    IF imported = "services"
    THEN LET r == _create_event(events, event_data, uuid)
         IN  [success |-> r.raised = "", event |-> r.event, events |-> r.events]
    ELSE [success |-> FALSE, event |-> NoEvent, events |-> events]

\* Clock readings of a tool call, as UTC instants
NowInstants == -1..(MaxWall + 1)

ErrInPast == "Cannot book appointments in the past."

\* validate_not_in_past(start_iso): the message when the start is before
\* now, None ("") otherwise
validate_not_in_past(start_iso, now) ==
    IF Utc(_parse_iso(start_iso)) < now THEN ErrInPast ELSE ""

\* Variant: the start of the booking is not compared with the clock.
BookingToolCreateEvent_unvalidated(events, event_data, uuid, now) ==
    LET r == booking_tool_create_event(events, event_data, uuid)
    IN  [success |-> r.success, event |-> r.event, events |-> r.events,
         error |-> IF r.success THEN "" ELSE "error"]

\* The create_event tool, lines 226-246: the validation against the clock,
\* then the store's create_event, every exception turned into
\* {"success": False, "error": ...}
BookingToolCreateEvent(events, event_data, uuid, now) ==
    LET validation_error == validate_not_in_past(event_data.start, now)
        r == booking_tool_create_event(events, event_data, uuid)
    IN  IF validation_error # ""
        THEN [success |-> FALSE, event |-> NoEvent, events |-> events,
              error |-> validation_error]
        ELSE [success |-> r.success, event |-> r.event, events |-> r.events,
              error |-> IF r.success THEN "" ELSE "error"]

\* The agent calls the tool create_event at clock reading now
tool_create_event(event_data, now) ==
    LET r == BookingToolCreateEvent(EVENTS, event_data, uuid4, now)
    IN  /\ EVENTS' = r.events
        /\ ret' = Call("tool_create_event", imported, EVENTS,
                       [event |-> event_data, now |-> now], "", <<>>,
                       [success |-> r.success, event |-> r.event,
                        error |-> r.error])
        /\ UNCHANGED <<imported, AppEVENTS, pc, cand, DATA_DIR, llm, frame,
                       conversation_store>>

\* complete_booking_turn: the agent runs the turn, calling the create_event
\* tool with tool_event or not at all (NoEvent); what is returned has
\* "tool_calls": None, modelled as the empty list.  The clock of the turn
\* is any reading that lets tool_event pass validate_not_in_past; a call
\* that fails the validation leaves the turn as one without a tool call.
complete_booking_turn(events, tool_event, uuid) ==
    LET tool == IF tool_event = NoEvent
                THEN [success |-> FALSE, event |-> NoEvent, events |-> events]
                ELSE booking_tool_create_event(events, tool_event, uuid)
    IN  [content |-> "final_response", tool_calls |-> <<>>,
         events |-> tool.events]

\* process_booking_message lines 98-112: event_created is the event of the
\* first successful create_event entry of result["tool_calls"]
process_booking_message(result) ==
    LET hits == {i \in 1..Len(result.tool_calls) :
                    /\ result.tool_calls[i].tool = "create_event"
                    /\ result.tool_calls[i].result.success
                    /\ result.tool_calls[i].result.event # NoEvent}
    IN  [content |-> result.content,
         tool_calls |-> result.tool_calls,
         event_created |->
            IF hits = {} THEN NoEvent
            ELSE result.tool_calls[CHOOSE i \in hits :
                                      \A j \in hits : i <= j].result.event]

\* A WorkflowRequest: "" stands for a field left None
WorkflowRequests ==
    [user_message : {"", "book"},
     event_id : WorkflowIds \cup {NoId},
     answer : RaceAnswers \cup {""},
     question : Questions \cup {""},
     generate_report : BOOLEAN]

\* What process_workflow answers: the HTTP status and the fields of the
\* body (detail for an HTTPException), and the event process_booking_message
\* reported for a booking turn
Response(status_code, status, event_id, report, question_count, event_created) ==
    [status_code |-> status_code, status |-> status, event_id |-> event_id,
     report |-> report, question_count |-> question_count,
     event_created |-> event_created]

\* Lines 76-102: a booking turn
ProcessBooking(request, tool_event, next_question) ==
    LET turn == complete_booking_turn(EVENTS, tool_event, uuid4)
        booking_result == process_booking_message(turn)
        created == booking_result.event_created
        q == NextQuestion(DATA_DIR, created, created.id, next_question)
    IN  IF created # NoEvent
        THEN [events |-> turn.events, data_dir |-> DATA_DIR, llm |-> q.llm,
              out |-> Response(200, "booking_complete", created.id, NoReport,
                               q.out.question_count, created)]
        ELSE [events |-> turn.events, data_dir |-> DATA_DIR, llm |-> NoInvoke,
              out |-> Response(200, "booking_in_progress", NoId, NoReport,
                               0, NoEvent)]

\* Lines 105-173: a request about an event
ProcessEvent(request, next_question, outcome) ==
    LET event == get_event_by_id(request.event_id)
        a == SubmitAnswer(DATA_DIR, event, request.event_id, request.question,
                          request.answer, next_question)
        ra == GenerateReport(a.data_dir, event, request.event_id, outcome)
        qa == NextQuestion(a.data_dir, event, request.event_id, next_question)
        r == GenerateReport(DATA_DIR, event, request.event_id, outcome)
        q == NextQuestion(DATA_DIR, event, request.event_id, next_question)
    IN  IF request.answer # "" /\ request.question # ""
        THEN IF a.out.is_complete
             THEN IF request.generate_report
                  THEN IF ra.out.status = "success"
                       THEN [events |-> EVENTS, data_dir |-> ra.data_dir,
                             llm |-> ra.llm,
                             out |-> Response(200, "report_generated",
                                              request.event_id, ra.out.report,
                                              RequiredAnswers, NoEvent)]
                       ELSE [events |-> EVENTS, data_dir |-> ra.data_dir,
                             llm |-> ra.llm,
                             out |-> Response(200, "questions_complete",
                                              request.event_id, NoReport,
                                              RequiredAnswers, NoEvent)]
                  ELSE [events |-> EVENTS, data_dir |-> a.data_dir,
                        llm |-> a.llm,
                        out |-> Response(200, "questions_complete",
                                         request.event_id, NoReport,
                                         RequiredAnswers, NoEvent)]
             ELSE [events |-> EVENTS, data_dir |-> a.data_dir, llm |-> qa.llm,
                   out |-> Response(200, "answering_questions",
                                    request.event_id, NoReport,
                                    a.out.question_count, NoEvent)]
        ELSE IF request.generate_report
        THEN IF r.out.status = "success"
             THEN [events |-> EVENTS, data_dir |-> r.data_dir, llm |-> r.llm,
                   out |-> Response(200, "report_generated", request.event_id,
                                    r.out.report, 0, NoEvent)]
             ELSE [events |-> EVENTS, data_dir |-> r.data_dir, llm |-> r.llm,
                   out |-> Response(400, "HTTPException", request.event_id,
                                    NoReport, 0, NoEvent)]
        ELSE [events |-> EVENTS, data_dir |-> DATA_DIR, llm |-> q.llm,
              out |-> Response(200, "question_ready", request.event_id,
                               NoReport, q.out.question_count, NoEvent)]

\* process_workflow(request); tool_event, next_question and outcome are
\* what the booking agent and the external models do when they are asked
process_workflow(request, tool_event, next_question, outcome) ==
    LET r == IF request.user_message # ""
             THEN ProcessBooking(request, tool_event, next_question)
             ELSE IF request.event_id # NoId
             THEN ProcessEvent(request, next_question, outcome)
             ELSE [events |-> EVENTS, data_dir |-> DATA_DIR, llm |-> NoInvoke,
                   out |-> Response(400, "HTTPException", NoId, NoReport,
                                    0, NoEvent)]
    IN  /\ \A event_id \in WorkflowIds :
              Len(get_qa_history(DATA_DIR, event_id)) < MaxAnswers
        /\ EVENTS' = r.events
        /\ DATA_DIR' = r.data_dir
        /\ llm' = r.llm
        /\ ret' = Call("process_workflow", "workflow",
                       [EVENTS |-> EVENTS, DATA_DIR |-> DATA_DIR], request,
                       "", <<>>, r.out)
        /\ UNCHANGED <<imported, AppEVENTS, pc, cand, frame,
                       conversation_store>>

----------------------------------------------------------------------------
(* routers/calendar.py, routers/booking.py: the call sites of the          *)
(* top-level store's check_availability                                    *)

\* The Event objects of calendar_store.py hold datetimes, the requests of
\* the routers hold str
IsDatetime(x) == "utcoffset" \in DOMAIN x

\* overlaps as Python evaluates it: a_start < b_end and b_start < a_end,
\* where < between a datetime and a str raises TypeError, and the second
\* comparison is made only when the first is true
py_overlaps(a_start, a_end, b_start, b_end) ==
    IF ~(IsDatetime(a_start) /\ IsDatetime(b_end))
    THEN "TypeError"
    ELSE IF ~DtLT(a_start, b_end)
    THEN "False"
    ELSE IF ~(IsDatetime(b_start) /\ IsDatetime(a_end))
    THEN "TypeError"
    ELSE IF DtLT(b_start, a_end) THEN "True" ELSE "False"

\* cal.check_availability(first, second): the parameters are declared
\* (end_time, start_time), so first is bound to end_time; the list
\* comprehension of get_events_between raises at the first event whose
\* comparison raises
py_check_availability(events, first, second) ==
    LET end_time == first
        start_time == second
        hit(ev) == py_overlaps(ev.start, ev.end, start_time, end_time)
        busy == SelectSeq(events, LAMBDA ev : hit(ev) = "True")
    IN  IF \E i \in 1..Len(events) : hit(events[i]) = "TypeError"
        THEN [raised |-> "TypeError", available |-> FALSE, conflicts |-> <<>>]
        ELSE [raised |-> "", available |-> Len(busy) = 0, conflicts |-> busy]

\* availability_check turns every exception into HTTPException 400;
\* handle_check_intent lets it pass
CheckSites == {"availability_check", "handle_check_intent"}

\* A call site asked about [start, end): cal.check_availability(payload.start,
\* payload.end), two ISO strings in this order
site_check_availability(site, start, end) ==
    LET r == py_check_availability(AppEVENTS, start, end)
    IN  /\ imported = "app"
        /\ ret' = Call(site, "app", AppEVENTS, [start |-> start, end |-> end],
                       IF r.raised = "" THEN ""
                       ELSE IF site = "availability_check" THEN "HTTPException"
                       ELSE r.raised,
                       <<>>,
                       [available |-> r.available, conflicts |-> r.conflicts])
        /\ UNCHANGED <<imported, EVENTS, AppEVENTS, pc, cand, DATA_DIR, llm, frame,
                       conversation_store>>

----------------------------------------------------------------------------
(* main.py booking_chat and state.py ConversationStore *)

Sessions == {"s1", "s2"}
UserMessages == {"hi", "book", "thanks"}

\* complete_booking_turn lines 363-369: msg["role"] is read of every
\* stored message; a dict without that key raises KeyError
replay_history(chat_history) ==
    IF \E i \in 1..Len(chat_history) : "role" \notin DOMAIN chat_history[i]
    THEN "KeyError"
    ELSE ""

\* The dict booking_chat stores for the assistant's turn: what
\* complete_booking_turn returned, {"content", "tool_calls"}
assistant_message(result) ==
    [content |-> result.content, tool_calls |-> result.tool_calls]

\* ConversationStore.append(session_id, message)
store_append(store, session_id, message) ==
    [store EXCEPT ![session_id] = Append(store[session_id], message)]

\* booking_chat(req): the history of the session is replayed to the agent,
\* whose turn may call the create_event tool, then the user turn and the
\* assistant turn are appended
booking_chat(session_id, user_message, tool_event) ==
    LET history == conversation_store[session_id]
        raised == replay_history(history)
        turn == complete_booking_turn(EVENTS, tool_event, uuid4)
        assistant_msg == assistant_message(turn)
        with_user == store_append(conversation_store, session_id,
                                  [role |-> "user", content |-> user_message])
    IN  IF raised # ""
        THEN /\ ret' = Call("booking_chat", "main", conversation_store,
                            [session_id |-> session_id,
                             user_message |-> user_message],
                            raised, <<>>, <<>>)
             /\ UNCHANGED <<imported, EVENTS, AppEVENTS, pc, cand, DATA_DIR,
                            llm, frame, conversation_store>>
        ELSE /\ EVENTS' = turn.events
             /\ conversation_store' =
                    store_append(with_user, session_id, assistant_msg)
             /\ ret' = Call("booking_chat", "main", conversation_store,
                            [session_id |-> session_id,
                             user_message |-> user_message],
                            "", <<>>,
                            [reply |-> assistant_msg.content,
                             session_id |-> session_id])
             /\ UNCHANGED <<imported, AppEVENTS, pc, cand, DATA_DIR, llm, frame>>

----------------------------------------------------------------------------
(* routers/booking.py generate_time_suggestions and                        *)
(* models/booking_model.py suggest_alternative_times                       *)

\* Clock readings of the suggestion day count the steps of
\* SLOT_CHECK_INTERVAL_MINUTES from its hour 0
MaxHour == 2          \* the day of the model has the hours 0..MaxHour
StepsPerHour == 2     \* check intervals in one hour
MaxSlotLen == 2       \* slot lengths are 1..MaxSlotLen check intervals
MaxSlots == 2         \* num_slots is 1..MaxSlots

DayHours == 0..MaxHour
SlotLens == 1..MaxSlotLen
SlotCounts == 1..MaxSlots

\* The clock of a call: -1 is a moment of an earlier day, the reading past
\* the last one of the day a moment of a later day
NowTimes == -1..((MaxHour + 1) * StepsPerHour)

\* day_dt.replace(hour=h)
HourStart(h) == h * StepsPerHour

\* current.isoformat() of a datetime in UTC
Stamp(w) == [wall |-> w, zone |-> "+00:00"]

\* generate_time_suggestions lines 118-127: the loop advances by the slot
\* length and asks the top-level store with two ISO strings
RECURSIVE generate_loop(_, _, _, _, _, _)
generate_loop(events, current, end_of_day, slot_delta, num_slots, suggestions) ==
    IF current + slot_delta <= end_of_day /\ Len(suggestions) < num_slots
    THEN LET start_iso == Stamp(current)
             end_iso == Stamp(current + slot_delta)
             r == py_check_availability(events, start_iso, end_iso)
         IN  IF r.raised # ""
             THEN [raised |-> r.raised, suggestions |-> <<>>]
             ELSE generate_loop(events, current + slot_delta, end_of_day,
                                slot_delta, num_slots,
                                IF r.available
                                THEN Append(suggestions,
                                            [start |-> start_iso, end |-> end_iso])
                                ELSE suggestions)
    ELSE [raised |-> "", suggestions |-> suggestions]

\* generate_time_suggestions(day, slot_minutes, num_slots); the search
\* window SUGGESTION_START_HOUR..SUGGESTION_END_HOUR is the whole day of
\* the model
generate_time_suggestions(slot_minutes, num_slots) ==
    LET r == generate_loop(AppEVENTS, HourStart(0), HourStart(MaxHour),
                           slot_minutes, num_slots, <<>>)
    IN  /\ imported = "app"
        /\ ret' = Call("generate_time_suggestions", "app", AppEVENTS,
                       [slot_minutes |-> slot_minutes, num_slots |-> num_slots,
                        start_hour |-> 0, end_hour |-> MaxHour],
                       r.raised, <<>>, r.suggestions)
        /\ UNCHANGED <<imported, EVENTS, AppEVENTS, pc, cand, DATA_DIR, llm,
                       frame, conversation_store>>

\* cal.check_availability(start_iso, end_iso) of the booking tools, whose
\* module imports calendar_store by its bare name
tool_check_availability(start_iso, end_iso) ==
    IF imported = "services"
    THEN LET r == _check_availability(EVENTS, start_iso, end_iso)
         IN  [raised |-> "", available |-> r.available, conflicts |-> r.conflicts]
    ELSE py_check_availability(AppEVENTS, start_iso, end_iso)

\* suggest_alternative_times lines 282-297: the loop advances by the check
\* interval and skips the slots that start before now
RECURSIVE suggest_loop(_, _, _, _, _, _)
suggest_loop(current, end_of_day, slot_delta, num_slots, now, suggestions) ==
    IF current + slot_delta <= end_of_day /\ Len(suggestions) < num_slots
    THEN IF current < now
         THEN suggest_loop(current + 1, end_of_day, slot_delta, num_slots,
                           now, suggestions)
         ELSE LET start_iso == Stamp(current)
                  end_iso == Stamp(current + slot_delta)
                  r == tool_check_availability(start_iso, end_iso)
              IN  IF r.raised # ""
                  THEN [error |-> r.raised, suggestions |-> <<>>]
                  ELSE suggest_loop(current + 1, end_of_day, slot_delta,
                                    num_slots, now,
                                    IF r.available
                                    THEN Append(suggestions,
                                                [start |-> start_iso,
                                                 end |-> end_iso])
                                    ELSE suggestions)
    ELSE [error |-> "", suggestions |-> suggestions]

\* suggest_alternative_times lines 266-301: on the day of the call the
\* search starts at the next full hour, and replace(hour=...) raises
\* ValueError for an hour the day does not have; every exception is turned
\* into {"suggestions": [], "error": ...}
SuggestAlternativeTimes(slot_minutes, num_slots, start_hour, end_hour, now) ==
    LET same_day == now >= 0 /\ now < (MaxHour + 1) * StepsPerHour
        current_hour == (now \div StepsPerHour)
                           + (IF now % StepsPerHour > 0 THEN 1 ELSE 0)
        first_hour == IF start_hour >= current_hour THEN start_hour
                      ELSE current_hour
    IN  IF same_day /\ first_hour > MaxHour
        THEN [error |-> "ValueError", suggestions |-> <<>>]
        ELSE suggest_loop(IF same_day THEN HourStart(first_hour)
                          ELSE HourStart(start_hour),
                          HourStart(end_hour), slot_minutes, num_slots, now, <<>>)

\* The agent calls the tool suggest_alternative_times
suggest_alternative_times(slot_minutes, num_slots, start_hour, end_hour, now) ==
    LET r == SuggestAlternativeTimes(slot_minutes, num_slots, start_hour,
                                     end_hour, now)
    IN  /\ ret' = Call("suggest_alternative_times", imported,
                       IF imported = "services" THEN EVENTS ELSE AppEVENTS,
                       [slot_minutes |-> slot_minutes, num_slots |-> num_slots,
                        start_hour |-> start_hour, end_hour |-> end_hour,
                        now |-> now],
                       "", <<>>, r.suggestions)
        /\ UNCHANGED <<imported, EVENTS, AppEVENTS, pc, cand, DATA_DIR, llm,
                       frame, conversation_store>>

----------------------------------------------------------------------------
(* Specifications.  The two stores share no state, so a behaviour exercises *)
(* the module its call sites import.                                        *)

Init ==
    /\ imported \in Modules
    /\ EVENTS = <<>>
    /\ AppEVENTS = <<>>
    /\ ret = NoCall
    /\ pc = [t \in Threads |-> "idle"]
    /\ cand = [t \in Threads |-> NoEvent]
    /\ DATA_DIR = [event_id \in EventIds |-> NoFile]
    /\ llm = NoInvoke
    /\ frame = [t \in Threads |-> NoFrame]
    /\ conversation_store = [session_id \in Sessions |-> <<>>]

\* Spec: calls run to completion one at a time, create_event with the
\* payloads of the repository's call sites
Next ==
    \/ \E event \in EventPayloads : create_event(event)
    \/ \E s \in IsoStrings, e \in IsoStrings : check_availability(s, e)
    \/ \E event \in AppEventPayloads : app_create_event(event)
    \/ \E x \in Datetimes, y \in Datetimes : app_check_availability_call(x, y)

Spec == Init /\ [][Next]_vars

\* SpecIds: create_event calls run one at a time, by callers that may also
\* choose the id of the event
NextIds ==
    \/ \E event \in EventDicts : create_event(event)
    \/ \E event \in AppEventObjects : app_create_event(event)

SpecIds == Init /\ [][NextIds]_vars

\* SpecConc: one create_event call per request thread, steps interleaved
NextConc ==
    \/ \E t \in Threads, event \in EventDicts : create_event_check(t, event)
    \/ \E t \in Threads : create_event_append(t)
    \/ \E t \in Threads, event \in AppEventObjects : app_create_event_check(t, event)
    \/ \E t \in Threads : app_create_event_append(t)

SpecConc == Init /\ [][NextConc]_vars

\* SpecOverlaps: the pure function overlaps on arbitrary ranges
NextOverlaps ==
    \/ \E a \in IsoStrings, b \in IsoStrings, c \in IsoStrings, d \in IsoStrings :
          overlaps_call(a, b, c, d)
    \/ \E a \in Datetimes, b \in Datetimes, c \in Datetimes, d \in Datetimes :
          app_overlaps_call(a, b, c, d)

SpecOverlaps == Init /\ [][NextOverlaps]_vars

\* SpecLookup: events created with and without caller-supplied ids, then
\* looked up by id
NextLookup ==
    \/ \E event \in EventDicts : create_event(event)
    \/ \E event_id \in EventIds : get_event_by_id_call(event_id)

SpecLookup == Init /\ [][NextLookup]_vars

\* SpecWorkflow: one booking at most, and the pre-visit calls on it and on
\* an id without a booking, one call at a time
NextWorkflow ==
    \/ \E event \in WorkflowPayloads : create_event(event)
    \/ \E event_id \in WorkflowIds, question \in Questions, answer \in Answers,
          next_question \in Questions \cup {NoQuestion} :
          submit_pre_visit_answer(event_id, question, answer, next_question)
    \/ \E event_id \in WorkflowIds, outcome \in Reports \cup {GeneratorFailure} :
          generate_pre_visit_report(event_id, outcome)
    \/ \E event_id \in WorkflowIds, outcome \in Reports \cup {GeneratorFailure} :
          generate_report_endpoint(event_id, outcome)
    \/ \E event_id \in WorkflowIds : get_workflow_state(event_id)
    \/ \E event_id \in WorkflowIds, next_question \in Questions \cup {NoQuestion} :
          get_next_pre_visit_question(event_id, next_question)

SpecWorkflow == Init /\ [][NextWorkflow]_vars

\* SpecMonth: bookings created one at a time, then listed by month
NextMonth ==
    \/ \E event \in EventPayloads : create_event(event)
    \/ \E year \in Years, month \in MonthNumbers : list_month_events(year, month)
    \/ \E event \in AppEventPayloads : app_create_event(event)
    \/ \E time \in Datetimes : app_list_month_events_call(time)
    \/ \E year \in Years, month \in MonthNumbers : get_calendar(year, month)

SpecMonth == Init /\ [][NextMonth]_vars

\* SpecRace: one booking at most; two request threads run workflow calls
\* on it whose reads and writes interleave
NextRace ==
    \/ \E event \in WorkflowPayloads : create_event(event)
    \/ \E t \in Threads, op \in WorkflowOps, event_id \in WorkflowIds,
          answer \in RaceAnswers :
          wf_lookup(t, op, event_id, answer)
    \/ \E t \in Threads : save_qa_load(t)
    \/ \E t \in Threads : save_qa_write(t)
    \/ \E t \in Threads : submit_read(t)
    \/ \E t \in Threads : report_check(t)
    \/ \E t \in Threads, outcome \in RaceOutcomes :
          report_generate(t, outcome)
    \/ \E t \in Threads : save_report_load(t)
    \/ \E t \in Threads : save_report_write(t)
    \/ \E t \in Threads : state_qa(t)
    \/ \E t \in Threads : state_report(t)
    \/ \E t \in Threads : wf_next_request(t)

SpecRace == Init /\ [][NextRace]_vars

\* SpecFrame: up to two bookings; the calls of thread 1 are about the one,
\* the calls of thread 2 about the other, and their steps interleave
NextFrame ==
    \/ \E event \in FramePayloads : create_event(event)
    \/ \E t \in Threads, op \in WorkflowOps, answer \in RaceAnswers :
          wf_lookup(t, op, BookingOf(t), answer)
    \/ \E t \in Threads : save_qa_load(t)
    \/ \E t \in Threads : save_qa_write(t)
    \/ \E t \in Threads : submit_read(t)
    \/ \E t \in Threads : report_check(t)
    \/ \E t \in Threads, outcome \in RaceOutcomes : report_generate(t, outcome)
    \/ \E t \in Threads : save_report_load(t)
    \/ \E t \in Threads : save_report_write(t)
    \/ \E t \in Threads : state_qa(t)
    \/ \E t \in Threads : state_report(t)
    \/ \E t \in Threads : wf_next_request(t)

SpecFrame == Init /\ [][NextFrame]_vars

\* SpecProcess: every request goes through the unified endpoint, one at a
\* time
NextProcess ==
    \/ \E request \in WorkflowRequests,
          tool_event \in WorkflowPayloads \cup {NoEvent},
          next_question \in Questions \cup {NoQuestion},
          outcome \in RaceOutcomes :
          process_workflow(request, tool_event, next_question, outcome)

SpecProcess == Init /\ [][NextProcess]_vars

\* SpecStore: bookings created one at a time, and between them every
\* reader of the store and every pre-visit call
NextStore ==
    \/ \E event \in FramePayloads : create_event(event)
    \/ \E s \in IsoStrings, e \in IsoStrings : check_availability(s, e)
    \/ \E event_id \in WorkflowIds : get_event_by_id_call(event_id)
    \/ \E year \in Years, month \in MonthNumbers : list_month_events(year, month)
    \/ \E event_id \in WorkflowIds, question \in Questions,
          answer \in RaceAnswers, next_question \in Questions \cup {NoQuestion} :
          submit_pre_visit_answer(event_id, question, answer, next_question)
    \/ \E event_id \in WorkflowIds, outcome \in RaceOutcomes :
          generate_pre_visit_report(event_id, outcome)
    \/ \E event_id \in WorkflowIds : get_workflow_state(event_id)
    \/ \E event_id \in WorkflowIds, next_question \in Questions \cup {NoQuestion} :
          get_next_pre_visit_question(event_id, next_question)

SpecStore == Init /\ [][NextStore]_vars

\* SpecFlow: one booking at most; the requests about an event go through
\* the unified endpoint one at a time, and the derived state is read
FlowRequests == {request \in WorkflowRequests : request.user_message = ""}

NextFlow ==
    \/ \E event \in WorkflowPayloads : create_event(event)
    \/ \E request \in FlowRequests,
          next_question \in Questions \cup {NoQuestion},
          outcome \in RaceOutcomes :
          process_workflow(request, NoEvent, next_question, outcome)
    \/ \E event_id \in WorkflowIds : get_workflow_state(event_id)

SpecFlow == Init /\ [][NextFlow]_vars

\* SpecSites: bookings of the top-level store created one at a time, and
\* the routers' availability checks
NextSites ==
    \/ \E event \in AppEventPayloads : app_create_event(event)
    \/ \E site \in CheckSites, start \in IsoStrings, end \in IsoStrings :
          site_check_availability(site, start, end)

SpecSites == Init /\ [][NextSites]_vars

\* SpecChat: the chat endpoint called again and again, for two sessions
NextChat ==
    \/ \E session_id \in Sessions, user_message \in UserMessages,
          tool_event \in WorkflowPayloads \cup {NoEvent} :
          booking_chat(session_id, user_message, tool_event)

SpecChat == Init /\ [][NextChat]_vars

\* SpecSuggest: bookings created one at a time in either store, and slot
\* suggestions asked in between
NextSuggest ==
    \/ \E event \in FramePayloads : create_event(event)
    \/ \E event \in AppEventPayloads : app_create_event(event)
    \/ \E slot_minutes \in SlotLens, num_slots \in SlotCounts :
          generate_time_suggestions(slot_minutes, num_slots)
    \/ \E slot_minutes \in SlotLens, num_slots \in SlotCounts,
          start_hour \in DayHours, end_hour \in DayHours, now \in NowTimes :
          suggest_alternative_times(slot_minutes, num_slots, start_hour,
                                    end_hour, now)

SpecSuggest == Init /\ [][NextSuggest]_vars

\* SpecTool: the agent's create_event tool called again and again, at any
\* clock reading
NextTool ==
    \/ \E event_data \in EventPayloads, now \in NowInstants :
          tool_create_event(event_data, now)

SpecTool == Init /\ [][NextTool]_vars

----------------------------------------------------------------------------
(* Vocabulary of the properties: instants and ranges, stated without the   *)
(* operators of the stores.                                                *)

\* The UTC instant an ISO string or a datetime denotes
Instant(x) ==
    IF "zone" \in DOMAIN x
    THEN CASE x.zone = "Z" -> x.wall
           [] x.zone = "+00:00" -> x.wall
           [] x.zone = "+01:00" -> x.wall - 1
    ELSE x.wall - x.utcoffset

\* A.start < B.end and B.start < A.end
RangesOverlap(A, B) ==
    Instant(A.start) < Instant(B.end) /\ Instant(B.start) < Instant(A.end)

WellFormed(A) == Instant(A.start) < Instant(A.end)

NoOverlapIn(events) ==
    \A i, j \in 1..Len(events) : i # j => ~RangesOverlap(events[i], events[j])

DistinctIdsIn(events) ==
    \A i, j \in 1..Len(events) : i # j => events[i].id # events[j].id

\* The bookings of a list that overlap range R, in list order
ConflictsOf(events, R) == SelectSeq(events, LAMBDA B : RangesOverlap(B, R))

StoreOf(module) == IF module = "services" THEN EVENTS ELSE AppEVENTS

Created == ret.op = "create_event"
Checked == ret.op = "check_availability"

----------------------------------------------------------------------------
(* Properties *)

\* C1: in every state reached from the empty store by create_event calls
\* run one after the other, no two distinct stored bookings A and B have
\* A.start < B.end and B.start < A.end.
C1_NoOverlap == NoOverlapIn(EVENTS) /\ NoOverlapIn(AppEVENTS)

C1_Witness == Created /\ ret.raised = "" /\ Len(StoreOf(ret.module)) >= 2

\* C2: when two create_event calls run concurrently, their checks and
\* appends interleaved, the store never holds two overlapping bookings and
\* two calls for overlapping ranges do not both succeed.
C2_ConcurrentCreateExclusive ==
    /\ NoOverlapIn(EVENTS) /\ NoOverlapIn(AppEVENTS)
    /\ \A t1, t2 \in Threads :
          (t1 # t2 /\ pc[t1] = "returned" /\ pc[t2] = "returned")
             => ~RangesOverlap(cand[t1], cand[t2])

\* C3: a create_event call with end > start whose range overlaps a stored
\* booking fails and leaves the store exactly as it was.
C3_ConflictRejected ==
    (Created /\ WellFormed(ret.args) /\ ConflictsOf(ret.pre, ret.args) # <<>>)
       => /\ ret.raised = ErrOverlap
          /\ StoreOf(ret.module) = ret.pre

C3_Witness ==
    Created /\ WellFormed(ret.args) /\ ConflictsOf(ret.pre, ret.args) # <<>>

\* C4: when create_event is rejected for an overlap, the error given to the
\* caller carries exactly the stored bookings that overlap the candidate.
C4_ErrorCarriesConflicts ==
    (Created /\ ret.raised = ErrOverlap)
       => ret.carried = ConflictsOf(ret.pre, ret.args)

\* C5: a create_event call with end <= start is rejected with the
\* validation error whatever the store holds, also when the range overlaps
\* a stored booking, and the store is unchanged.
C5_InvalidRangeRejected ==
    (Created /\ ~WellFormed(ret.args))
       => /\ ret.raised = ErrEndBeforeStart
          /\ StoreOf(ret.module) = ret.pre

C5_Witness ==
    Created /\ ~WellFormed(ret.args) /\ ConflictsOf(ret.pre, ret.args) # <<>>

\* C6: a create_event call for [s, e) with s < e succeeds and appends
\* exactly one booking, with that range, whenever every stored booking B
\* has B.end <= s or e <= B.start; touching ranges are accepted.
C6_NonOverlapAccepted ==
    (/\ Created
     /\ WellFormed(ret.args)
     /\ \A i \in 1..Len(ret.pre) :
           \/ Instant(ret.pre[i].end) <= Instant(ret.args.start)
           \/ Instant(ret.args.end) <= Instant(ret.pre[i].start))
       => /\ ret.raised = ""
          /\ StoreOf(ret.module) = Append(ret.pre, ret.out)
          /\ ret.out.start = ret.args.start
          /\ ret.out.end = ret.args.end

C6_Witness ==
    /\ Created
    /\ ret.raised = ""
    /\ \E i \in 1..Len(ret.pre) :
          \/ Instant(ret.pre[i].end) = Instant(ret.args.start)
          \/ Instant(ret.args.end) = Instant(ret.pre[i].start)

\* The range whose start is the i-th argument of the last overlaps call
C7_Range(i) == [start |-> ret.args[i], end |-> ret.args[i + 1]]

\* C7: overlaps(A.start, A.end, B.start, B.end) is true iff A.start < B.end
\* and B.start < A.end; it is symmetric in A and B and false when
\* A.end = B.start.
C7_OverlapsFormula ==
    ret.op = "overlaps"
       => /\ ret.out = RangesOverlap(C7_Range(1), C7_Range(3))
          /\ ret.out = IF ret.module = "services"
                       THEN overlaps(ret.args[3], ret.args[4],
                                     ret.args[1], ret.args[2])
                       ELSE app_overlaps(ret.args[3], ret.args[4],
                                         ret.args[1], ret.args[2])
          /\ (Instant(ret.args[2]) = Instant(ret.args[3]) => ret.out = FALSE)

C7_Witness ==
    /\ ret.op = "overlaps"
    /\ Instant(ret.args[2]) = Instant(ret.args[3])
    /\ ret.args[2].wall # ret.args[3].wall
    /\ WellFormed(C7_Range(1)) /\ WellFormed(C7_Range(3))

\* The range R of the last check_availability call
C8_Range == [start |-> ret.args[1], end |-> ret.args[2]]

\* C8: check_availability of the services store returns as conflicts
\* exactly the stored bookings whose range overlaps R, each once and in
\* store order, and available = TRUE iff that list is empty.
C8_CheckAvailabilityExact ==
    (Checked /\ ret.module = "services")
       => /\ ret.out.conflicts = ConflictsOf(EVENTS, C8_Range)
          /\ ret.out.available = (ConflictsOf(EVENTS, C8_Range) = <<>>)

C8_Witness ==
    /\ Checked /\ ret.module = "services"
    /\ Len(EVENTS) = 2
    /\ Len(ret.out.conflicts) = 2
    /\ Instant(EVENTS[2].start) < Instant(EVENTS[1].start)

\* C9: check_availability leaves the store unchanged, and two calls with
\* the same range and no create_event between them return the same result.
C9_ReadOnlyIdempotent ==
    /\ [](Checked => StoreOf(ret.module) = ret.pre)
    /\ [][(/\ Checked
           /\ ret'.op = "check_availability"
           /\ ret'.args = ret.args)
             => ret'.out = ret.out]_vars

C9_Witness == Checked /\ Len(ret.pre) = 2 /\ Len(ret.out.conflicts) = 1

\* C10: create_event assigns a fresh id when the candidate carries none,
\* and the ids of the stored bookings are pairwise distinct in every state
\* reached by create_event calls, with or without caller-supplied ids.
C10_UniqueIds ==
    /\ DistinctIdsIn(EVENTS) /\ DistinctIdsIn(AppEVENTS)
    /\ (Created /\ ret.raised = "" /\ ret.args.id = NoId)
          => /\ ret.out.id # NoId
             /\ \A i \in 1..Len(ret.pre) : ret.pre[i].id # ret.out.id


\* C11: get_event_by_id(id) returns a stored booking whose id equals the
\* argument when one exists, returns None exactly when no stored booking
\* has that id, and leaves the store unchanged.
C11_GetEventById ==
    ret.op = "get_event_by_id"
       => /\ EVENTS = ret.pre
          /\ (ret.out = NoEvent)
                <=> (\A i \in 1..Len(EVENTS) : EVENTS[i].id # ret.args)
          /\ ret.out # NoEvent
                => /\ ret.out.id = ret.args
                   /\ \E i \in 1..Len(EVENTS) : EVENTS[i] = ret.out

C11_Witness ==
    /\ ret.op = "get_event_by_id"
    /\ Len(EVENTS) = 2
    /\ ret.out = EVENTS[2]
    /\ EVENTS[1].id # ret.args


\* The calendar month a wall-clock reading lies in
C12_MonthOf(x) == IF x.wall < FirstOfMonth THEN <<2025, 1>> ELSE <<2025, 2>>

\* The bookings of a store whose start lies in the month
C12_StartingIn(events, ym) ==
    SelectSeq(events, LAMBDA ev : C12_MonthOf(ev.start) = ym)

\* C12: for every store content and every period, the month listing
\* (list_month_events of either store, and the calendar endpoint built on
\* it) returns exactly the stored bookings whose start falls within the
\* period.
C12_MonthListingExact ==
    /\ (ret.op = "list_month_events" /\ ret.module = "services")
          => ret.out = C12_StartingIn(EVENTS, ret.args)
    /\ (ret.op = "list_month_events" /\ ret.module = "app")
          => ret.out = C12_StartingIn(AppEVENTS, C12_MonthOf(ret.args[1]))
    /\ ret.op = "get_calendar"
          => /\ ret.raised = ""
             /\ ret.out = C12_StartingIn(AppEVENTS, ret.args)


\* Vocabulary of the pre-visit properties
Booked(event_id) == \E i \in 1..Len(EVENTS) : EVENTS[i].id = event_id
Submitted == ret.op = "submit_pre_visit_answer"
ReportAsked == ret.op \in {"generate_pre_visit_report", "generate_report_endpoint"}
HistoryIn(data_dir, event_id) == data_dir[event_id].qa
ReportIn(data_dir, event_id) == data_dir[event_id].report

\* C13: for an id that no stored booking carries, submit_pre_visit_answer
\* and generate_pre_visit_report each return the not-found error, and the
\* Q&A record and the report of that id are neither created nor changed.
C13_NotFound ==
    ((Submitted \/ ReportAsked) /\ ~Booked(ret.args.event_id))
       => /\ ret.out.status = "error"
          /\ ret.out.message = Fmt(MsgNotFound, <<>>)
          /\ DATA_DIR[ret.args.event_id] = ret.pre[ret.args.event_id]
          /\ ~DATA_DIR[ret.args.event_id].exists
          /\ llm = NoInvoke

C13_Witness ==
    /\ Submitted /\ ~Booked(ret.args.event_id)
    /\ \E event_id \in DOMAIN DATA_DIR :
          Booked(event_id) /\ Len(HistoryIn(DATA_DIR, event_id)) >= 1


\* C14: in every state reached by submit_pre_visit_answer calls, the Q&A
\* history of every booking has between 0 and 7 pairs.
C14_HistoryAtMostSeven ==
    \A event_id \in DOMAIN DATA_DIR :
        Len(HistoryIn(DATA_DIR, event_id)) \in 0..RequiredAnswers

\* A step is a successful submit_pre_visit_answer call for the id
C15_SubmitStep(event_id) ==
    /\ ret' # ret
    /\ ret'.op = "submit_pre_visit_answer"
    /\ ret'.args.event_id = event_id
    /\ ret'.out.status = "success"

\* C15: the history starts empty, each successful submit_pre_visit_answer
\* call up to the seventh makes it one longer and returns the new length
\* as question_count, and nothing else changes its length; so after n
\* successful calls (0 <= n <= 7) the length is n and the n-th call
\* returned n.
C15_CountFollowsCalls ==
    /\ \A event_id \in DOMAIN DATA_DIR : Len(HistoryIn(DATA_DIR, event_id)) = 0
    /\ [][\A event_id \in DOMAIN DATA_DIR :
            LET before == Len(HistoryIn(DATA_DIR, event_id))
                after == Len(HistoryIn(DATA_DIR', event_id))
            IN  IF C15_SubmitStep(event_id)
                THEN before < RequiredAnswers
                        => /\ after = before + 1
                           /\ ret'.out.question_count = after
                ELSE after = before]_vars

C15_Witness ==
    /\ Submitted /\ ret.out.status = "success"
    /\ ret.out.question_count = RequiredAnswers
    /\ Len(HistoryIn(DATA_DIR, ret.args.event_id)) = RequiredAnswers

\* s is an initial part of t
C16_Prefix(s, t) == Len(s) <= Len(t) /\ \A i \in 1..Len(s) : s[i] = t[i]

C17_CompleteIffSeven ==
    /\ Submitted
          => ret.out.is_complete
                = (Len(HistoryIn(DATA_DIR, ret.args.event_id)) >= RequiredAnswers)
    /\ ret.op = "get_workflow_state"
          => ret.out.is_questions_complete
                = (Len(HistoryIn(DATA_DIR, ret.args.event_id)) >= RequiredAnswers)

C17_Witness ==
    /\ Submitted /\ ret.out.is_complete
    /\ Len(HistoryIn(ret.pre, ret.args.event_id)) = RequiredAnswers - 1
    /\ Len(HistoryIn(DATA_DIR, ret.args.event_id)) = RequiredAnswers

\* C18: for a stored booking whose history has fewer than 7 pairs,
\* generate_pre_visit_report fails with the incomplete error carrying the
\* current count (the endpoint turns it into a 400 with that message), the
\* external report generator is not invoked and no report is persisted.
C18_IncompleteRejected ==
    (/\ ReportAsked
     /\ Booked(ret.args.event_id)
     /\ Len(HistoryIn(ret.pre, ret.args.event_id)) < RequiredAnswers)
       => /\ ret.out.status = "error"
          /\ ret.out.message
                = Fmt(MsgIncomplete, <<Len(HistoryIn(ret.pre, ret.args.event_id))>>)
          /\ ret.op = "generate_report_endpoint"
                => /\ ret.raised = "HTTPException"
                   /\ ret.carried = <<400, ret.out.message>>
          /\ llm = NoInvoke
          /\ DATA_DIR = ret.pre
          /\ ReportIn(DATA_DIR, ret.args.event_id) = NoReport

C18_Witness ==
    /\ ret.op = "generate_report_endpoint"
    /\ Booked(ret.args.event_id)
    /\ Len(HistoryIn(ret.pre, ret.args.event_id)) = RequiredAnswers - 1

\* C19: generate_pre_visit_report calls the external report generator only
\* when the booking's history has exactly 7 pairs: whenever the generator
\* is invoked, the history it is given has exactly 7 pairs.
C19_GeneratorOnlyAtSeven ==
    (ReportAsked /\ llm.fn = "generate_pre_visit_report")
       => /\ Len(llm.qa_history) = RequiredAnswers
          /\ Len(HistoryIn(ret.pre, ret.args.event_id)) = RequiredAnswers

\* C20: when the external report generator fails during
\* generate_pre_visit_report, the call returns the generator error and
\* nothing is persisted: the stored report (absent or present) and the Q&A
\* history are as before the call.
C20_FailureKeepsStore ==
    (ReportAsked /\ llm.fn = "generate_pre_visit_report" /\ llm.raised)
       => /\ ret.out.status = "error"
          /\ ret.out.report = NoReport
          /\ ret.out.message = Fmt(MsgFailed, <<GeneratorFailure>>)
          /\ ReportIn(DATA_DIR, ret.args.event_id)
                = ReportIn(ret.pre, ret.args.event_id)
          /\ HistoryIn(DATA_DIR, ret.args.event_id)
                = HistoryIn(ret.pre, ret.args.event_id)
          /\ DATA_DIR = ret.pre

C20_Witness ==
    /\ ReportAsked /\ llm.fn = "generate_pre_visit_report" /\ llm.raised
    /\ ReportIn(ret.pre, ret.args.event_id) \in Reports
    /\ ReportIn(DATA_DIR, ret.args.event_id) \in Reports


\* Vocabulary of the properties of interleaved workflow calls
Returned(t, op) == pc[t] = "returned" /\ frame[t].op = op

\* C21: the workflow state derived from the store never moves backward,
\* in concurrent executions too: a booking that exists keeps existing, its
\* answer count never decreases, and a stored report stays stored.
C21_NeverBackward ==
    [][\A event_id \in DOMAIN DATA_DIR :
          /\ Booked(event_id)
                => \E i \in 1..Len(EVENTS') : EVENTS'[i].id = event_id
          /\ Len(HistoryIn(DATA_DIR', event_id))
                >= Len(HistoryIn(DATA_DIR, event_id))
          /\ ReportIn(DATA_DIR, event_id) # NoReport
                => ReportIn(DATA_DIR', event_id) # NoReport]_vars

\* C22: every result of get_workflow_state is the workflow state of one
\* single state of the store, also under concurrent writes: it never
\* reports a report together with fewer than 7 answers, nor answers
\* together with a booking that does not exist.
C22_StateConsistent ==
    \A t \in Threads :
        Returned(t, "get_workflow_state")
           => /\ ~(/\ frame[t].report # NoReport
                   /\ Len(frame[t].qa_history) < RequiredAnswers)
              /\ ~(/\ Len(frame[t].qa_history) > 0
                   /\ ~frame[t].event_exists)

\* C23: for any interleaving of submit_pre_visit_answer calls on the same
\* booking no append is lost (every write of save_qa leaves the stored
\* history one pair longer than it was) and the calls return pairwise
\* different question_count values.
C23_NoLostAppend ==
    /\ [](\A t1 \in Threads, t2 \in Threads :
            (/\ t1 # t2
             /\ Returned(t1, "submit_pre_visit_answer")
             /\ Returned(t2, "submit_pre_visit_answer")
             /\ frame[t1].status = "success" /\ frame[t2].status = "success"
             /\ frame[t1].event_id = frame[t2].event_id)
               => Len(frame[t1].qa_history) # Len(frame[t2].qa_history))
    /\ [][\A t \in Threads :
            (pc[t] = "save_qa_write" /\ pc'[t] = "submit_read")
               => Len(HistoryIn(DATA_DIR', frame[t].event_id))
                    = Len(HistoryIn(DATA_DIR, frame[t].event_id)) + 1]_vars

\* The booking a step of thread t is about
C24_StepOn(t) == IF pc[t] = "idle" THEN frame'[t].event_id ELSE frame[t].event_id

\* C24: the steps of submit_pre_visit_answer and generate_pre_visit_report
\* for booking A leave the Q&A history and the report of every other
\* booking B unchanged, however the operations on A and B interleave.
C24_OtherBookingsUntouched ==
    [][\A t \in Threads :
          pc'[t] # pc[t]
             => \A event_id \in DOMAIN DATA_DIR :
                   event_id # C24_StepOn(t)
                      => DATA_DIR'[event_id] = DATA_DIR[event_id]]_vars

C24_Witness ==
    /\ Returned(1, "generate_pre_visit_report") /\ frame[1].status = "success"
    /\ ReportIn(DATA_DIR, frame[1].event_id) # NoReport
    /\ pc[2] = "submit_read"
    /\ frame[2].event_id # frame[1].event_id
    /\ Len(HistoryIn(DATA_DIR, frame[2].event_id)) = 2
    /\ ReportIn(DATA_DIR, frame[2].event_id) = NoReport

\* C25: generate_pre_visit_report checks completeness and reads the
\* history for the generator as one atomic step: the history handed to the
\* external generator is the history whose length was checked against 7.
C25_GateAtomic ==
    \A t \in Threads :
        (/\ frame[t].op = "generate_pre_visit_report"
         /\ pc[t] \in {"save_report_load", "save_report_write", "returned"}
         /\ Len(frame[t].qa_history) >= RequiredAnswers)
           => frame[t].given = frame[t].qa_history


\* C26: when the external question generator fails or returns nothing,
\* get_next_pre_visit_question and submit_pre_visit_answer do not raise:
\* they return no question, the answer being submitted is still recorded,
\* and the booking's history and report are otherwise unchanged.
C26_QuestionFailureTolerated ==
    (llm.fn = "generate_next_question" /\ llm.raised)
       => /\ Submitted
             => /\ ret.raised = ""
                /\ ret.out.status = "success"
                /\ ret.out.next_question = NoQuestion
                /\ HistoryIn(DATA_DIR, ret.args.event_id)
                     = HistoryIn(ret.pre, ret.args.event_id)
                         \o <<[question |-> ret.args.question,
                               answer |-> ret.args.answer]>>
                /\ ReportIn(DATA_DIR, ret.args.event_id)
                     = ReportIn(ret.pre, ret.args.event_id)
          /\ ret.op = "get_next_pre_visit_question"
             => /\ ret.raised = ""
                /\ ret.out.question = NoQuestion
                /\ DATA_DIR = ret.pre

C26_Witness ==
    /\ Submitted
    /\ llm.fn = "generate_next_question" /\ llm.raised
    /\ Len(HistoryIn(ret.pre, ret.args.event_id)) = 2
    /\ Len(HistoryIn(DATA_DIR, ret.args.event_id)) = 3


\* Vocabulary of the properties of the unified endpoint
Processed == ret.op = "process_workflow"

\* C27: whenever a report is requested through process_workflow
\* (generate_report = true with an event_id) the response either carries
\* the report that was generated and stored, or reports the failure as an
\* error; a failed generation is never answered with a non-error status.
C27_ReportFailureIsError ==
    (/\ Processed
     /\ ret.args.user_message = ""
     /\ ret.args.event_id # NoId
     /\ ret.args.generate_report)
       => \/ /\ ret.out.status = "report_generated"
             /\ ret.out.report # NoReport
             /\ ReportIn(DATA_DIR, ret.args.event_id) = ret.out.report
          \/ ret.out.status_code >= 400


\* C30: when a booking turn of the agent stores an event, the turn reports
\* that event as event_created and process_workflow answers
\* "booking_complete" with the id of the new event; event_created is None
\* exactly when the turn stored no event.
C30_CreatedEventReported ==
    (Processed /\ ret.args.user_message # "")
       => /\ (ret.out.event_created = NoEvent) <=> (EVENTS = ret.pre.EVENTS)
          /\ EVENTS # ret.pre.EVENTS
                => /\ ret.out.event_created = EVENTS[Len(EVENTS)]
                   /\ ret.out.status = "booking_complete"
                   /\ ret.out.event_id = EVENTS[Len(EVENTS)].id


\* C28: the booking store changes only by a successful create_event, which
\* appends the one booking it returns and leaves every booking stored
\* before in place with its id, range and fields; availability checks,
\* lookups, month listings and the Q&A and report calls leave it as it was.
C28_StoreChangesByCreateOnly ==
    [][EVENTS' # EVENTS
          => /\ ret'.op = "create_event"
             /\ ret'.raised = ""
             /\ EVENTS' = Append(EVENTS, ret'.out)]_vars

C28_Witness ==
    /\ ReportAsked
    /\ ret.out.status = "success"
    /\ Len(EVENTS) = 2
    /\ Booked(ret.args.event_id)
    /\ ReportIn(DATA_DIR, ret.args.event_id) # NoReport


\* C29: generate_pre_visit_report on a booking whose history is complete
\* invokes the external generator exactly once, on that history; a report
\* stored before does not make the call fail, and when the generator
\* answers the new report takes the place of the old one as the one report
\* of the booking; when it fails the stored report stays.
C29_RegenerationOverwrites ==
    (/\ ret.op = "generate_pre_visit_report"
     /\ Booked(ret.args.event_id)
     /\ Len(HistoryIn(ret.pre, ret.args.event_id)) >= RequiredAnswers)
       => /\ llm.fn = "generate_pre_visit_report"
          /\ llm.calls = 1
          /\ llm.qa_history = HistoryIn(ret.pre, ret.args.event_id)
          /\ ~llm.raised
                => /\ ret.out.status = "success"
                   /\ ret.out.report \in Reports
                   /\ ReportIn(DATA_DIR, ret.args.event_id) = ret.out.report
          /\ llm.raised
                => /\ ret.out.status = "error"
                   /\ ReportIn(DATA_DIR, ret.args.event_id)
                        = ReportIn(ret.pre, ret.args.event_id)

C29_Witness ==
    /\ ret.op = "generate_pre_visit_report"
    /\ Booked(ret.args.event_id)
    /\ ReportIn(ret.pre, ret.args.event_id) = "r1"
    /\ ret.out.status = "success"
    /\ ReportIn(DATA_DIR, ret.args.event_id) = "r2"


\* C31: on a stored booking the unified endpoint walks the stages in
\* order: an answer submitted on a history of n < 6 pairs is answered
\* "answering_questions" with count n + 1, the seventh answer
\* "questions_complete" with count 7, a report request on the seven pairs
\* with the generator answering "report_generated" with the report stored;
\* get_workflow_state on seven pairs and a stored report gives
\* is_questions_complete and report_exists.
C31_StagesInOrder ==
    /\ (/\ Processed
        /\ ret.args.user_message = ""
        /\ Booked(ret.args.event_id))
          => LET event_id == ret.args.event_id
                 n == Len(HistoryIn(ret.pre.DATA_DIR, event_id))
                 answering == ret.args.answer # "" /\ ret.args.question # ""
             IN  /\ (answering /\ n < RequiredAnswers - 1)
                       => /\ ret.out.status = "answering_questions"
                          /\ ret.out.question_count = n + 1
                          /\ Len(HistoryIn(DATA_DIR, event_id)) = n + 1
                          /\ ReportIn(DATA_DIR, event_id)
                               = ReportIn(ret.pre.DATA_DIR, event_id)
                 /\ (answering /\ n = RequiredAnswers - 1
                       /\ ~ret.args.generate_report)
                       => /\ ret.out.status = "questions_complete"
                          /\ ret.out.question_count = RequiredAnswers
                          /\ Len(HistoryIn(DATA_DIR, event_id)) = RequiredAnswers
                 /\ (~answering /\ ret.args.generate_report
                       /\ n = RequiredAnswers /\ ~llm.raised)
                       => /\ ret.out.status = "report_generated"
                          /\ ret.out.report \in Reports
                          /\ ReportIn(DATA_DIR, event_id) = ret.out.report
                          /\ HistoryIn(DATA_DIR, event_id)
                               = HistoryIn(ret.pre.DATA_DIR, event_id)
    /\ (/\ ret.op = "get_workflow_state"
        /\ Booked(ret.args.event_id)
        /\ Len(HistoryIn(DATA_DIR, ret.args.event_id)) = RequiredAnswers
        /\ ReportIn(DATA_DIR, ret.args.event_id) # NoReport)
          => /\ ret.out.is_questions_complete
             /\ ret.out.report_exists
             /\ ret.out.questions_completed = RequiredAnswers

C31_Witness ==
    /\ ret.op = "get_workflow_state"
    /\ Booked(ret.args.event_id)
    /\ Len(HistoryIn(DATA_DIR, ret.args.event_id)) = RequiredAnswers
    /\ ReportIn(DATA_DIR, ret.args.event_id) # NoReport
    /\ ret.out.report_exists


\* C32: a call site that asks the top-level store about [start, end) is
\* answered without an exception, available is true if and only if no
\* stored booking overlaps [start, end), and conflicts lists exactly the
\* overlapping bookings.
C32_SiteAvailabilityExact ==
    ret.op \in CheckSites
       => /\ ret.raised = ""
          /\ ret.out.conflicts = ConflictsOf(AppEVENTS, ret.args)
          /\ ret.out.available <=> (ConflictsOf(AppEVENTS, ret.args) = <<>>)


\* C33: for a stored booking the is_complete flag returned by
\* get_next_pre_visit_question is true if and only if its history holds 7
\* pairs or more; it is false on a shorter history also when no question
\* could be produced.
C33_NextCompleteIffSeven ==
    (ret.op = "get_next_pre_visit_question" /\ Booked(ret.args.event_id))
       => (ret.out.is_complete
             <=> Len(HistoryIn(DATA_DIR, ret.args.event_id)) >= RequiredAnswers)


\* C34: the external question generator is asked only with a history of
\* fewer than 7 pairs: once a booking has 7 pairs or more,
\* get_next_pre_visit_question and submit_pre_visit_answer return no
\* question and the generator is not invoked.
C34_QuestionGeneratorBelowSeven ==
    /\ llm.fn = "generate_next_question"
          => Len(llm.qa_history) < RequiredAnswers
    /\ (/\ Submitted \/ ret.op = "get_next_pre_visit_question"
        /\ Booked(ret.args.event_id)
        /\ Len(HistoryIn(DATA_DIR, ret.args.event_id)) >= RequiredAnswers)
          => /\ llm = NoInvoke
             /\ Submitted => ret.out.next_question = NoQuestion
             /\ ret.op = "get_next_pre_visit_question"
                   => ret.out.question = NoQuestion

C34_Witness ==
    /\ ret.op = "get_next_pre_visit_question"
    /\ Booked(ret.args.event_id)
    /\ Len(HistoryIn(DATA_DIR, ret.args.event_id)) = RequiredAnswers
    /\ llm = NoInvoke
    /\ ret.out.question = NoQuestion


\* C35: in every reachable state the stages are ordered: an id with a
\* stored report has a history of at least 7 pairs, and an id with a
\* non-empty history or a stored report is the id of a stored booking.
C35_StagesOrdered ==
    \A event_id \in EventIds :
        /\ ReportIn(DATA_DIR, event_id) # NoReport
              => Len(HistoryIn(DATA_DIR, event_id)) >= RequiredAnswers
        /\ (HistoryIn(DATA_DIR, event_id) # <<>>
              \/ ReportIn(DATA_DIR, event_id) # NoReport)
              => Booked(event_id)


\* C36: within one booking's record the write of save_qa leaves the stored
\* report as it was and the write of save_report leaves the Q&A history as
\* it was, also when the two calls interleave: no recorded answer and no
\* persisted report is lost.
C36_RecordPartsIndependent ==
    [][\A t \in Threads :
          /\ (pc[t] = "save_qa_write" /\ pc'[t] # pc[t])
                => ReportIn(DATA_DIR', frame[t].event_id)
                     = ReportIn(DATA_DIR, frame[t].event_id)
          /\ (pc[t] = "save_report_write" /\ pc'[t] # pc[t])
                => HistoryIn(DATA_DIR', frame[t].event_id)
                     = HistoryIn(DATA_DIR, frame[t].event_id)]_vars


\* C37: every booking_chat call, also a repeated one for the same
\* session_id, returns without an exception and appends exactly two
\* messages to that session's history, the user turn then the assistant
\* turn; every stored message has the role user or assistant; the
\* histories of the other sessions are unchanged.
C37_ChatAppendsTwoTurns ==
    /\ ret.op = "booking_chat"
          => LET session_id == ret.args.session_id
                 before == ret.pre[session_id]
                 after == conversation_store[session_id]
             IN  /\ ret.raised = ""
                 /\ Len(after) = Len(before) + 2
                 /\ \A i \in 1..Len(before) : after[i] = before[i]
                 /\ after[Len(before) + 1]
                      = [role |-> "user", content |-> ret.args.user_message]
                 /\ "role" \in DOMAIN after[Len(before) + 2]
                 /\ \A other \in Sessions \ {session_id} :
                       conversation_store[other] = ret.pre[other]
    /\ \A session_id \in Sessions :
          \A i \in 1..Len(conversation_store[session_id]) :
             LET msg == conversation_store[session_id][i]
             IN  "role" \in DOMAIN msg /\ msg.role \in {"user", "assistant"}


\* C38: a slot-suggestion call returns, without an exception, at most
\* num_slots suggestions, each of the requested length, lying inside the
\* search window of the day and overlapping no booking stored at the time
\* of the call.
C38_SuggestionsFree ==
    ret.op \in {"generate_time_suggestions", "suggest_alternative_times"}
       => /\ ret.raised = ""
          /\ Len(ret.out) <= ret.args.num_slots
          /\ \A i \in 1..Len(ret.out) :
                /\ Instant(ret.out[i].end) - Instant(ret.out[i].start)
                     = ret.args.slot_minutes
                /\ Instant(ret.out[i].start) >= HourStart(ret.args.start_hour)
                /\ Instant(ret.out[i].end) <= HourStart(ret.args.end_hour)
                /\ ConflictsOf(StoreOf(ret.module), ret.out[i]) = <<>>


\* C39: the create_event tool of the booking agent never raises; for a
\* start before the current time, for end <= start and for a range that
\* overlaps a stored booking it returns success = false with an error and
\* leaves the store unchanged; it returns success = true only with the
\* booking appended to the store.
C39_ToolRejectsOrAppends ==
    ret.op = "tool_create_event"
       => LET event == ret.args.event
          IN  /\ ret.raised = ""
              /\ AppEVENTS = <<>>
              /\ (\/ Instant(event.start) < ret.args.now
                  \/ Instant(event.end) <= Instant(event.start)
                  \/ ConflictsOf(ret.pre, event) # <<>>)
                    => ~ret.out.success
              /\ ~ret.out.success
                    => ret.out.error # "" /\ EVENTS = ret.pre
              /\ ret.out.success
                    => /\ EVENTS = Append(ret.pre, ret.out.event)
                       /\ ret.out.event.start = event.start
                       /\ ret.out.event.end = event.end
                       /\ ret.out.event.patient_name = event.patient_name

C39_Witness ==
    /\ ret.op = "tool_create_event"
    /\ Len(ret.pre) = 1
    /\ Instant(ret.args.event.start) < ret.args.now
    /\ Instant(ret.args.event.start) < Instant(ret.args.event.end)
    /\ ConflictsOf(ret.pre, ret.args.event) = <<>>
    /\ ~ret.out.success
    /\ ret.out.error = ErrInPast

====
